---- MODULE Spec2Model ----
(***************************************************************************)
(* Model of the BigQuery MCP server (src/src/index.ts): the read-only      *)
(* query gateway, the INFORMATION_SCHEMA path qualification, the warehouse *)
(* enumeration handlers and the tabular summarizer.                        *)
(*                                                                         *)
(* SQL text is a sequence of tokens.  A token is an atomic piece of text   *)
(* that is either made of word characters only ([A-Za-z0-9_]), of white    *)
(* space only, or of a single punctuation mark; the regular expressions of *)
(* the source are evaluated over these sequences.                          *)
(***************************************************************************)
EXTENDS Integers, Sequences, FiniteSets, TLC

VARIABLES
  config,     \* ServerConfig fixed at start-up: projectId, location
  pc,         \* position of the handler: "idle", "await", "done"
  req,        \* the request being handled
  frame,      \* the handler's local variables at its current await
  calls,      \* the warehouse calls issued by this invocation, in order
  replies,    \* the warehouse's answer to each of them, in order
  result,     \* how the invocation ended: a returned tool result or a throw
  qsql,       \* qualifyTablePath run on its own: the input text
  qproj,      \*   the project id
  qout,       \*   the value of qualifyTablePath(qsql, qproj)
  qout2,      \*   the value of qualifyTablePath applied to qout.text
  data,       \* analyze_results: what JSON.parse makes of the data argument
  report,     \*   the sections computed for the report or the chart
  args,       \*   the other arguments of the call: focus, type
  proc,       \* the process: its command line, how far start-up has come, exit status
  other       \* a second invocation, suspended at an await while this one runs

vars == <<config, pc, req, frame, calls, replies, result, qsql, qproj, qout, qout2,
          data, report, args, proc, other>>

serverVars == <<config, pc, req, frame, calls, replies, result>>
qualifyVars == <<qsql, qproj, qout, qout2>>
analyzeVars == <<data, report, args>>
hostVars == <<proc, other>>

----------------------------------------------------------------------------
(* Bounds *)

MaxFrags == 2      \* fragments concatenated into one SQL text
MaxDatasets == 2   \* datasets the warehouse lists
MaxTables == 2     \* tables and views the warehouse lists in one dataset
MaxRows == 4       \* elements of the array passed to analyze_results

----------------------------------------------------------------------------
(* Text *)

Undefined == "<undefined>"

SpaceToks == {" ", "\n"}
\* the backtick character (the quote of a BigQuery path)
Backtick == "<backtick>"

PunctToks == {".", Backtick, "'", "--", "*", "-", "="}

\* toUpperCase / the i flag, on the tokens of the model
Upper(t) ==
  CASE t = "from" -> "FROM"
    [] t = "From" -> "FROM"
    [] t = "information_schema" -> "INFORMATION_SCHEMA"
    [] t = "Information_Schema" -> "INFORMATION_SCHEMA"
    [] t = "tables" -> "TABLES"
    [] t = "drop" -> "DROP"
    [] t = "Update" -> "UPDATE"
    [] t = "delete" -> "DELETE"
    [] t = "insert" -> "INSERT"
    [] t = "select" -> "SELECT"
    [] t = "proj" -> "PROJ"
    [] t = "ds" -> "DS"
    [] t = "Ds" -> "DS"
    [] t = "t1" -> "T1"
    [] t = "d_at" -> "D_AT"
    [] t = "s" -> "S"
    [] t = "x" -> "X"
    [] t = "my" -> "MY"
    [] OTHER -> t

\* letters outside ASCII: a character class without the u flag leaves them out
NonAsciiToks == {"é"}

\* \w on a token: every character is an ASCII letter, a digit or an underscore
IsWord(t) == t \notin SpaceToks /\ t \notin PunctToks /\ t \notin NonAsciiToks

\* \s on a token
IsSpace(t) == t \in SpaceToks

\* the alternatives of forbiddenPattern
ForbiddenWords ==
  {"INSERT", "UPDATE", "DELETE", "CREATE", "DROP", "ALTER", "MERGE", "TRUNCATE",
   "GRANT", "REVOKE", "EXECUTE", "BEGIN", "COMMIT", "ROLLBACK"}

\* the pattern without its i flag
forbiddenPatternTest_caseSensitive(sql) ==
  /\ sql # Undefined
  /\ \E i \in 1..Len(sql) :
       /\ sql[i] \in ForbiddenWords
       /\ (i = 1 \/ ~IsWord(sql[i-1]))
       /\ (i = Len(sql) \/ ~IsWord(sql[i+1]))

\* the pattern without its \b anchors
forbiddenPatternTest_noBoundary(sql) ==
  /\ sql # Undefined
  /\ \E i \in 1..Len(sql) : Upper(sql[i]) \in ForbiddenWords

\* forbiddenPattern.test(sql): /\b(INSERT|...|ROLLBACK)\b/i
\* (test(undefined) tests the text "undefined")
forbiddenPatternTest(sql) ==
  /\ sql # Undefined
  /\ \E i \in 1..Len(sql) :
       /\ Upper(sql[i]) \in ForbiddenWords
       /\ (i = 1 \/ ~IsWord(sql[i-1]))
       /\ (i = Len(sql) \/ ~IsWord(sql[i+1]))

\* sql.toUpperCase().includes('INFORMATION_SCHEMA')
includesInformationSchema(sql) ==
  \E i \in 1..Len(sql) : Upper(sql[i]) = "INFORMATION_SCHEMA"

NoMatch == [found |-> FALSE, len |-> 0, dataset |-> <<>>]

\* token i of s upper-cased, or "" past the end
At(s, i) == IF i >= 1 /\ i <= Len(s) THEN Upper(s[i]) ELSE ""

\* first index >= i of s whose token does not satisfy P (Len(s)+1 when none)
RECURSIVE SkipSpace(_, _)
SkipSpace(s, i) ==
  IF i <= Len(s) /\ IsSpace(s[i]) THEN SkipSpace(s, i + 1) ELSE i

RECURSIVE SkipWord(_, _)
SkipWord(s, i) ==
  IF i <= Len(s) /\ IsWord(s[i]) THEN SkipWord(s, i + 1) ELSE i

\* the pattern without its leading FROM\s+
unqualifiedPatternAt_noFrom(s, i) ==
  LET k == SkipWord(s, i)
  IN  IF /\ k > i
         /\ At(s, k) = "."
         /\ At(s, k + 1) = "INFORMATION_SCHEMA"
         /\ At(s, k + 2) = "."
         /\ At(s, k + 3) = "TABLES"
      THEN [found |-> TRUE, len |-> k + 4 - i, dataset |-> SubSeq(s, i, k - 1)]
      ELSE IF /\ At(s, i) = "INFORMATION_SCHEMA"
              /\ At(s, i + 1) = "."
              /\ At(s, i + 2) = "TABLES"
      THEN [found |-> TRUE, len |-> 3, dataset |-> <<>>]
      ELSE NoMatch

\* unqualifiedPattern = /FROM\s+(?:(\w+)\.)?INFORMATION_SCHEMA\.TABLES/gi
\* tried at position i of s: whether it matches, the length of the match and
\* the text captured by (\w+) (empty when the group did not take part)
unqualifiedPatternAt(s, i) ==
  IF At(s, i) # "FROM" THEN NoMatch
  ELSE
    LET j == SkipSpace(s, i + 1)       \* \s+ is greedy and \w, I are not space
        k == SkipWord(s, j)            \* (\w+) must run up to the "."
    IN  IF j = i + 1 THEN NoMatch
        ELSE IF /\ k > j
                /\ At(s, k) = "."
                /\ At(s, k + 1) = "INFORMATION_SCHEMA"
                /\ At(s, k + 2) = "."
                /\ At(s, k + 3) = "TABLES"
             THEN [found |-> TRUE, len |-> k + 4 - i, dataset |-> SubSeq(s, j, k - 1)]
        ELSE IF /\ At(s, j) = "INFORMATION_SCHEMA"
                /\ At(s, j + 1) = "."
                /\ At(s, j + 2) = "TABLES"
             THEN [found |-> TRUE, len |-> j + 3 - i, dataset |-> <<>>]
        ELSE NoMatch

\* the replacement without the backtick quotes
Replacement_unquoted(projectId, dataset) ==
  <<"FROM", " ">> \o projectId \o <<".">> \o dataset
    \o <<".", "INFORMATION_SCHEMA", ".", "TABLES">>

\* the replacer's return value for a match with a dataset:
\* FROM <backtick>${projectId}.${dataset}.INFORMATION_SCHEMA.TABLES<backtick>
Replacement(projectId, dataset) ==
  <<"FROM", " ", Backtick>> \o projectId \o <<".">> \o dataset
    \o <<".", "INFORMATION_SCHEMA", ".", "TABLES", Backtick>>

\* the successive matches of the g-flagged pattern from position i on, left to
\* right and not overlapping: <<start, match>> each
RECURSIVE globalMatches(_, _)
globalMatches(s, i) ==
  IF i > Len(s) THEN <<>>
  ELSE LET m == unqualifiedPatternAt(s, i)
       IN  IF m.found THEN <<[start |-> i, len |-> m.len, dataset |-> m.dataset]>>
                           \o globalMatches(s, i + m.len)
           ELSE globalMatches(s, i + 1)

\* String.prototype.replace with a replacer function: the text with every match
\* replaced by the replacer's value
RECURSIVE replaceAll(_, _, _)
replaceAll(s, projectId, i) ==
  IF i > Len(s) THEN <<>>
  ELSE LET m == unqualifiedPatternAt(s, i)
       IN  IF m.found
           THEN Replacement(projectId, m.dataset) \o replaceAll(s, projectId, i + m.len)
           ELSE <<s[i]>> \o replaceAll(s, projectId, i + 1)

DatasetMessage == "Dataset must be specified when querying INFORMATION_SCHEMA"

\* the pattern without its g flag: only the first match is looked at
qualifyTablePath_firstMatch(sql, projectId) ==
  LET ms == globalMatches(sql, 1)
  IN  IF ms = <<>> THEN [threw |-> FALSE, message |-> "", text |-> sql]
      ELSE IF ms[1].dataset = <<>>
      THEN [threw |-> TRUE, message |-> DatasetMessage, text |-> <<>>]
      ELSE [threw |-> FALSE, message |-> "",
            text |-> SubSeq(sql, 1, ms[1].start - 1)
                     \o Replacement(projectId, ms[1].dataset)
                     \o SubSeq(sql, ms[1].start + ms[1].len, Len(sql))]

\* qualifyTablePath(sql, projectId): the rewritten text, or the Error the
\* replacer throws at the first match without a dataset
qualifyTablePath(sql, projectId) ==
  LET ms == globalMatches(sql, 1)
  IN  IF \E n \in 1..Len(ms) : ms[n].dataset = <<>>
      THEN [threw |-> TRUE, message |-> DatasetMessage, text |-> <<>>]
      ELSE [threw |-> FALSE, message |-> "", text |-> replaceAll(sql, projectId, 1)]

----------------------------------------------------------------------------
(* Inputs: SQL texts and project ids *)

KeywordToks == ForbiddenWords \cup {"drop", "Update"}

Fragments ==
  { <<"SELECT", " ", "*", " ">>,
    <<" ">>, <<"x">>, <<"FROM", " ">>,
    <<"FROM", " ", "ds", ".", "t1">>,
    <<"FROM", " ", "INFORMATION_SCHEMA", ".", "TABLES">>,
    <<"from", "\n", " ", "information_schema", ".", "tables", " ">>,
    <<"FROM", " ", "ds", ".", "INFORMATION_SCHEMA", ".", "TABLES">>,
    <<" ", "From", " ", "Ds", ".", "Information_Schema", ".", "tables", "\n">>,
    <<"FROM", " ", "x", "ds", ".", "INFORMATION_SCHEMA", ".", "TABLES", "x">>,
    <<"FROM", " ", "INFORMATION_SCHEMA", ".", "INFORMATION_SCHEMA", ".", "TABLES">>,
    <<"FROM", " ", Backtick, "proj", ".", "ds", ".", "INFORMATION_SCHEMA", ".", "TABLES", Backtick>>,
    <<"FROM", " ", "proj", ".", "ds", ".", "INFORMATION_SCHEMA", ".", "TABLES">>,
    <<"FROM", " ", "ds", ".", "INFORMATION_SCHEMA", ".", "COLUMNS">>,
    <<"ds", ".", "INFORMATION_SCHEMA", ".", "TABLES">>,
    <<"'", "DROP", "'">>, <<"--", " ", "insert", "\n">>,
    <<"CREATE", "d_at">>, <<"Update", "s">>, <<"x", "DELETE">>, <<"é", "Update">>,
    <<"DROP">>, <<"Update">> }

\* each forbidden keyword on its own and inside a statement
KeywordTexts ==
  { <<k>> : k \in KeywordToks }
  \cup { <<"SELECT", " ", "*", " ", k, "\n", "x">> : k \in KeywordToks }

RECURSIVE Texts(_)
Texts(n) ==
  IF n = 0 THEN { <<>> }
  ELSE { f \o t : f \in Fragments, t \in Texts(n - 1) } \cup Texts(n - 1)

SqlTexts == (Texts(MaxFrags) \ { <<>> }) \cup KeywordTexts

\* the texts of fewer fragments
ShortTexts == Texts(MaxFrags - 1) \ { <<>> }

\* project ids accepted by validateConfig: /^[a-z0-9-]+$/
ProjectIds == { <<"proj">>, <<"from">>, <<"my", "-", "proj">> }

Locations == {"US", "EU"}

----------------------------------------------------------------------------
(* Values shared by the handlers *)

NoResult == [kind |-> "none", isError |-> FALSE, prefix |-> "", message |-> "", payload |-> <<>>]

\* return { content: [{ type: "text", text: prefix + message / payload }], isError }
ToolResult(isError, prefix, message, payload) ==
  [kind |-> "returned", isError |-> isError, prefix |-> prefix, message |-> message,
   payload |-> payload]

\* the handler's promise rejects with the raised value
Thrown(e) ==
  [kind |-> "thrown", isError |-> FALSE, prefix |-> "", message |-> e.message,
   payload |-> <<e.isErrorObj>>]

\* a raised value: an instance of Error with a message, or any other value
ErrorObj(msg) == [isErrorObj |-> TRUE, message |-> msg]
NonErrorValue(v) == [isErrorObj |-> FALSE, message |-> v]

NoFrame == [at |-> "", datasets |-> <<>>, di |-> 0, tables |-> <<>>, ti |-> 0, acc |-> <<>>]

NoReq == [name |-> "", sqlGiven |-> FALSE, sql |-> <<>>, maximumBytesBilled |-> Undefined,
          dataset |-> Undefined, uri |-> <<>>]

\* one request to the warehouse client
WhCall(op, query, location, cap, dataset, table) ==
  [op |-> op, query |-> query, location |-> location, maximumBytesBilled |-> cap,
   dataset |-> dataset, table |-> table]

----------------------------------------------------------------------------
(* The query tool *)

DefaultMaximumBytesBilled == "1000000000"

ReadOnlyMessage == "Only READ operations are allowed"
QueryErrorPrefix == "Error executing query: "

\* JavaScript truthiness of an optional string argument
Falsy(v) == v = Undefined \/ v = ""

\* the cap of the caller ignored
maximumBytesBilledOf_default(given) == DefaultMaximumBytesBilled

\* request.params.arguments?.maximumBytesBilled || "1000000000"
maximumBytesBilledOf(given) ==
  IF Falsy(given) THEN DefaultMaximumBytesBilled ELSE given

\* a catch that hands every error on
queryCatch_rethrow(e) == Thrown(e)

\* catch (error) of the query branch
queryCatch(e) ==
  IF e.isErrorObj THEN ToolResult(TRUE, QueryErrorPrefix, e.message, <<>>)
  ELSE Thrown(e)

\* the text forbiddenPattern.test(sql) is run on (undefined is converted to text)
guardedText(sqlGiven, sql) == IF sqlGiven THEN sql ELSE <<"undefined">>

\* The query branch from its entry to its first await: the outcome is either a
\* finished invocation (result) or the request sent to bigquery.query (call).
queryStart(sqlGiven, sql, given, cfg) ==
  IF forbiddenPatternTest(guardedText(sqlGiven, sql))
  THEN [done |-> TRUE, result |-> Thrown(ErrorObj(ReadOnlyMessage)), calls |-> <<>>]
  ELSE IF ~sqlGiven
  THEN \* sql.toUpperCase() on undefined raises a TypeError inside the try
       [done |-> TRUE, result |-> queryCatch(ErrorObj("TypeError")), calls |-> <<>>]
  ELSE
    LET q == IF includesInformationSchema(sql)
             THEN qualifyTablePath(sql, cfg.projectId)
             ELSE [threw |-> FALSE, message |-> "", text |-> sql]
    IN  IF q.threw
        THEN [done |-> TRUE, result |-> queryCatch(ErrorObj(q.message)), calls |-> <<>>]
        ELSE [done |-> FALSE, result |-> NoResult,
              calls |-> << WhCall("query", q.text, cfg.location,
                                  maximumBytesBilledOf(given), "", "") >>]

\* the query branch after bigquery.query settles
queryResume(reply) ==
  IF reply.ok THEN ToolResult(FALSE, "", "", reply.rows)
  ELSE queryCatch(reply.raised)

----------------------------------------------------------------------------
(* The handlers that enumerate the warehouse: resource listing, generate_sql,
   get_schema_insights *)

\* datasets.slice(0, 5) of generate_sql
DatasetLimit == 5

GetDatasetsCall == WhCall("getDatasets", <<>>, "", "", "", "")
GetTablesCall(d) == WhCall("getTables", <<>>, "", "", d, "")
GetMetadataCall(d, t) == WhCall("getMetadata", <<>>, "", "", d, t)

Step(done, res, fr, cs) == [done |-> done, result |-> res, frame |-> fr, calls |-> cs]

\* catch (error) of each enumerating handler
enumCatch(name, e) ==
  IF name = "resources/list" THEN Thrown(e)
  ELSE IF ~e.isErrorObj THEN Thrown(e)
  ELSE IF name = "generate_sql" THEN ToolResult(TRUE, "Error generating SQL: ", e.message, <<>>)
  ELSE ToolResult(TRUE, "Error analyzing schema: ", e.message, <<>>)

\* the value returned once every dataset has been walked
enumReturn(name, acc) ==
  IF name = "resources/list" THEN ToolResult(FALSE, "resources", "", acc)
  ELSE IF name = "generate_sql" THEN ToolResult(FALSE, "suggested SQL", "", acc)
  ELSE ToolResult(FALSE, "Schema Insights", "", acc)

\* for (const dataset of datasets): the loop reaches dataset number di
enterDataset(name, datasets, di, acc) ==
  IF di > Len(datasets)
  THEN Step(TRUE, enumReturn(name, acc), NoFrame, <<>>)
  ELSE Step(FALSE, NoResult,
            [at |-> "getTables", datasets |-> datasets, di |-> di, tables |-> <<>>,
             ti |-> 0, acc |-> acc],
            << GetTablesCall(datasets[di]) >>)

\* the datasets the handler walks, from those the warehouse listed
selectedDatasets(r, datasets) ==
  IF r.name = "generate_sql"
  THEN SubSeq(datasets, 1, IF Len(datasets) < DatasetLimit THEN Len(datasets) ELSE DatasetLimit)
  ELSE IF r.name = "get_schema_insights" /\ ~Falsy(r.dataset)
  THEN SelectSeq(datasets, LAMBDA d : d = r.dataset)
  ELSE datasets

\* the handler resumes after await bigquery.getDatasets()
afterGetDatasets(r, reply) ==
  IF ~reply.ok THEN Step(TRUE, enumCatch(r.name, reply.raised), NoFrame, <<>>)
  ELSE LET ds == selectedDatasets(r, reply.rows)
       IN  IF r.name = "get_schema_insights" /\ ds = <<>>
           THEN Step(TRUE,
                     ToolResult(TRUE, "", IF ~Falsy(r.dataset) THEN "Dataset not found."
                                          ELSE "No datasets found in this project.", <<>>),
                     NoFrame, <<>>)
           ELSE enterDataset(r.name, ds, 1, <<>>)

\* a handler that goes on with the next dataset when getTables fails
afterGetTables_skipFailed(r, fr, reply) ==
  IF ~reply.ok \/ reply.rows = <<>> THEN enterDataset(r.name, fr.datasets, fr.di + 1, fr.acc)
  ELSE Step(FALSE, NoResult,
            [fr EXCEPT !.at = "getMetadata", !.tables = reply.rows, !.ti = 1],
            << GetMetadataCall(fr.datasets[fr.di], reply.rows[1]) >>)

\* the handler resumes after await dataset.getTables()
afterGetTables(r, fr, reply) ==
  IF ~reply.ok THEN Step(TRUE, enumCatch(r.name, reply.raised), NoFrame, <<>>)
  ELSE IF reply.rows = <<>> THEN enterDataset(r.name, fr.datasets, fr.di + 1, fr.acc)
  ELSE Step(FALSE, NoResult,
            [fr EXCEPT !.at = "getMetadata", !.tables = reply.rows, !.ti = 1],
            << GetMetadataCall(fr.datasets[fr.di], reply.rows[1]) >>)

\* the entry pushed for one table: its dataset, its id and 'view' or 'table'
entryOf(d, t, metadata) ==
  [dataset |-> d, table |-> t, type |-> IF metadata[1] = "VIEW" THEN "view" ELSE "table"]

\* the handler resumes after await table.getMetadata()
afterGetMetadata(r, fr, reply) ==
  IF ~reply.ok THEN Step(TRUE, enumCatch(r.name, reply.raised), NoFrame, <<>>)
  ELSE LET acc == Append(fr.acc, entryOf(fr.datasets[fr.di], fr.tables[fr.ti], reply.rows))
       IN  IF fr.ti < Len(fr.tables)
           THEN Step(FALSE, NoResult, [fr EXCEPT !.ti = fr.ti + 1, !.acc = acc],
                     << GetMetadataCall(fr.datasets[fr.di], fr.tables[fr.ti + 1]) >>)
           ELSE enterDataset(r.name, fr.datasets, fr.di + 1, acc)

----------------------------------------------------------------------------
(* Resource reading *)

SCHEMA_PATH == "schema"

\* a resource URI below bigquery://<project>: its path components
ResourceUris ==
  { <<d, t, last>> : d \in {"d1", "d2"}, t \in {"t1", "t2"}, last \in {"schema", "rows"} }

\* ReadResourceRequestSchema handler up to its await: the last three path
\* components are popped; no try surrounds the body
readResourceStart(uri) ==
  LET schema == uri[Len(uri)]
      tableId == uri[Len(uri) - 1]
      datasetId == uri[Len(uri) - 2]
  IN  IF schema # SCHEMA_PATH
      THEN Step(TRUE, Thrown(ErrorObj("Invalid resource URI")), NoFrame, <<>>)
      ELSE Step(FALSE, NoResult, [NoFrame EXCEPT !.at = "readMetadata"],
                << GetMetadataCall(datasetId, tableId) >>)

\* after await table.getMetadata(): the field list, or the rejection passed on
readResourceResume(reply) ==
  IF reply.ok THEN Step(TRUE, ToolResult(FALSE, "contents", "", reply.rows), NoFrame, <<>>)
  ELSE Step(TRUE, Thrown(reply.raised), NoFrame, <<>>)

----------------------------------------------------------------------------
(* The warehouse as the handlers see it *)

RowSets == { <<>>, <<"r1", "r2">> }

Raised == { ErrorObj("quota exceeded"), NonErrorValue("rejected value") }

OkReply(rows) == [ok |-> TRUE, rows |-> rows, raised |-> ErrorObj("")]
FailReply(e) == [ok |-> FALSE, rows |-> <<>>, raised |-> e]

QueryReplies == { OkReply(r) : r \in RowSets } \cup { FailReply(e) : e \in Raised }

MaximumBytesArgs == { Undefined, "", "500" }

DatasetIds == <<"d1", "d2", "d3", "d4">>
\* a table id may hold letters, marks, digits, connectors, dashes and spaces
TableIds == <<"t1", "my table", "t3", "t4">>

\* bigquery.getDatasets() settles: the datasets of the project, or a failure
DatasetsReplies ==
  { OkReply(SubSeq(DatasetIds, 1, n)) : n \in 0..MaxDatasets }
  \cup { FailReply(e) : e \in Raised }

\* dataset.getTables() settles: the tables and views of the dataset, or a failure
TablesReplies ==
  { OkReply(SubSeq(TableIds, 1, n)) : n \in 0..MaxTables }
  \cup { FailReply(e) : e \in Raised }

\* table.getMetadata() settles: the metadata (its type here), or a failure
MetadataReplies ==
  { OkReply(<<t>>) : t \in {"TABLE", "VIEW"} } \cup { FailReply(e) : e \in Raised }

\* the dataset argument of get_schema_insights
DatasetArgs == { Undefined, "", "d1", "d2", "nowhere" }

----------------------------------------------------------------------------
(* The server handling one request *)

QuietQualify ==
  /\ qsql = <<>>
  /\ qproj = <<>>
  /\ qout = [none |-> TRUE]
  /\ qout2 = [none |-> TRUE]

QuietAnalyze ==
  /\ data = [none |-> TRUE]
  /\ report = [none |-> TRUE]
  /\ args = [focus |-> Undefined, type |-> Undefined]

\* the process once start-up is over and the transport is connected
Serving ==
  [at |-> "connected", argv |-> <<>>, access |-> "", keyFile |-> [none |-> TRUE],
   fault |-> "", exit |-> -1, handled |-> 0]

\* no second invocation
NoOther == [none |-> TRUE]

QuietHost ==
  /\ proc = Serving
  /\ other = NoOther

IdleHandler ==
  /\ pc = "idle"
  /\ req = NoReq
  /\ frame = NoFrame
  /\ calls = <<>>
  /\ replies = <<>>
  /\ result = NoResult

Configs ==
  { [projectId |-> <<"proj">>, location |-> "US"],
    [projectId |-> <<"my", "-", "proj">>, location |-> "EU"] }

Init ==
  /\ config \in Configs
  /\ IdleHandler
  /\ QuietQualify
  /\ QuietAnalyze
  /\ QuietHost

\* the arguments a caller may pass to the query tool
QueryArgs ==
  { [sqlGiven |-> TRUE, sql |-> t, given |-> Undefined] : t \in SqlTexts }
  \cup { [sqlGiven |-> TRUE, sql |-> t, given |-> g] :
            t \in ShortTexts, g \in MaximumBytesArgs }
  \cup { [sqlGiven |-> FALSE, sql |-> <<>>, given |-> g] : g \in MaximumBytesArgs }

\* CallToolRequestSchema handler, name = "query", up to the await
CallQuery ==
  /\ pc = "idle"
  /\ \E a \in QueryArgs :
       LET o == queryStart(a.sqlGiven, a.sql, a.given, config)
       IN  /\ pc' = IF o.done THEN "done" ELSE "await"
           /\ result' = o.result
           /\ calls' = o.calls
           /\ frame' = IF o.done THEN NoFrame ELSE [NoFrame EXCEPT !.at = "query"]
           /\ req' = [NoReq EXCEPT !.name = "query", !.sqlGiven = a.sqlGiven,
                                   !.sql = a.sql, !.maximumBytesBilled = a.given]
  /\ UNCHANGED <<config, replies, qualifyVars, analyzeVars, hostVars>>

\* bigquery.query settles and the handler runs to its end
QueryReply ==
  /\ pc = "await"
  /\ frame.at = "query"
  /\ \E reply \in QueryReplies :
       /\ result' = queryResume(reply)
       /\ replies' = Append(replies, reply)
  /\ pc' = "done"
  /\ frame' = NoFrame
  /\ UNCHANGED <<config, req, calls, qualifyVars, analyzeVars, hostVars>>

\* ListResourcesRequestSchema handler, up to its first await
ListResources ==
  /\ pc = "idle"
  /\ req' = [NoReq EXCEPT !.name = "resources/list"]
  /\ calls' = << GetDatasetsCall >>
  /\ frame' = [NoFrame EXCEPT !.at = "getDatasets"]
  /\ pc' = "await"
  /\ UNCHANGED <<config, replies, result, qualifyVars, analyzeVars, hostVars>>

\* CallToolRequestSchema handler, name = "generate_sql", up to its first await
CallGenerateSql ==
  /\ pc = "idle"
  /\ req' = [NoReq EXCEPT !.name = "generate_sql"]
  /\ calls' = << GetDatasetsCall >>
  /\ frame' = [NoFrame EXCEPT !.at = "getDatasets"]
  /\ pc' = "await"
  /\ UNCHANGED <<config, replies, result, qualifyVars, analyzeVars, hostVars>>

\* CallToolRequestSchema handler, name = "get_schema_insights", up to its first await
CallGetSchemaInsights ==
  /\ pc = "idle"
  /\ \E d \in DatasetArgs :
       req' = [NoReq EXCEPT !.name = "get_schema_insights", !.dataset = d]
  /\ calls' = << GetDatasetsCall >>
  /\ frame' = [NoFrame EXCEPT !.at = "getDatasets"]
  /\ pc' = "await"
  /\ UNCHANGED <<config, replies, result, qualifyVars, analyzeVars, hostVars>>

\* the handler takes the step o: it ends, or it waits on the call it issued
TakeStep(o) ==
  /\ pc' = IF o.done THEN "done" ELSE "await"
  /\ result' = o.result
  /\ frame' = o.frame
  /\ calls' = calls \o o.calls

\* getDatasets settles and the enumerating handler runs to its next await
GetDatasetsReply ==
  /\ pc = "await"
  /\ frame.at = "getDatasets"
  /\ \E reply \in DatasetsReplies :
       /\ replies' = Append(replies, reply)
       /\ TakeStep(afterGetDatasets(req, reply))
  /\ UNCHANGED <<config, req, qualifyVars, analyzeVars, hostVars>>

\* getTables settles and the enumerating handler runs to its next await
GetTablesReply ==
  /\ pc = "await"
  /\ frame.at = "getTables"
  /\ \E reply \in TablesReplies :
       /\ replies' = Append(replies, reply)
       /\ TakeStep(afterGetTables(req, frame, reply))
  /\ UNCHANGED <<config, req, qualifyVars, analyzeVars, hostVars>>

\* getMetadata settles and the enumerating handler runs to its next await
GetMetadataReply ==
  /\ pc = "await"
  /\ frame.at = "getMetadata"
  /\ \E reply \in MetadataReplies :
       /\ replies' = Append(replies, reply)
       /\ TakeStep(afterGetMetadata(req, frame, reply))
  /\ UNCHANGED <<config, req, qualifyVars, analyzeVars, hostVars>>

\* ReadResourceRequestSchema handler, up to its await
ReadResource ==
  /\ pc = "idle"
  /\ \E uri \in ResourceUris :
       /\ req' = [NoReq EXCEPT !.name = "resources/read", !.uri = uri]
       /\ TakeStep(readResourceStart(uri))
  /\ UNCHANGED <<config, replies, qualifyVars, analyzeVars, hostVars>>

\* table.getMetadata() of the read settles and the handler runs to its end
ReadMetadataReply ==
  /\ pc = "await"
  /\ frame.at = "readMetadata"
  /\ \E reply \in MetadataReplies :
       /\ replies' = Append(replies, reply)
       /\ TakeStep(readResourceResume(reply))
  /\ UNCHANGED <<config, req, qualifyVars, analyzeVars, hostVars>>

\* the names the if / else-if chain of the CallToolRequestSchema handler compares
\* request.params.name with (===)
ToolNames ==
  { "query", "generate_sql", "analyze_results", "generate_visualization",
    "get_schema_insights" }

\* names a client may send that no branch of the chain matches: === is exact, so a
\* name in another case, with a trailing blank, empty, or of a tool of another server
OtherNames == { "", "Query", "QUERY", "query ", "analyze", "list_tables" }

\* the arguments sent along with such a name
OtherArgs ==
  { [sqlGiven |-> FALSE, sql |-> <<>>] }
  \cup { [sqlGiven |-> TRUE, sql |-> t] : t \in ShortTexts }

UnknownToolMessage == "Unknown tool: "

unknownTool_returned(name) ==
  Step(TRUE, ToolResult(TRUE, "", UnknownToolMessage, <<>>), NoFrame, <<>>)

\* the statement after the chain, outside every try: throw new Error(`Unknown tool: ...`)
unknownTool(name) ==
  Step(TRUE, Thrown(ErrorObj(UnknownToolMessage)), NoFrame, <<>>)

\* CallToolRequestSchema handler, name matched by no branch
CallUnknownTool ==
  /\ pc = "idle"
  /\ \E name \in OtherNames, a \in OtherArgs :
       /\ name \notin ToolNames
       /\ req' = [NoReq EXCEPT !.name = name, !.sqlGiven = a.sqlGiven, !.sql = a.sql]
       /\ TakeStep(unknownTool(name))
  /\ UNCHANGED <<config, replies, qualifyVars, analyzeVars, hostVars>>

Next ==
  \/ CallQuery
  \/ QueryReply
  \/ ListResources
  \/ CallGenerateSql
  \/ CallGetSchemaInsights
  \/ GetDatasetsReply
  \/ GetTablesReply
  \/ GetMetadataReply
  \/ ReadResource
  \/ ReadMetadataReply
  \/ CallUnknownTool

Spec == Init /\ [][Next]_vars

----------------------------------------------------------------------------
(* Notions the properties are stated with *)

\* a forbidden keyword stands in the text as a word of its own, in any letter
\* case, wherever it stands (a string literal and a comment included); a word
\* ends where a character that is no ASCII letter, digit or underscore stands
HasStandaloneForbiddenWord(s) ==
  \E i \in 1..Len(s) :
    /\ \E w \in ForbiddenWords : Upper(s[i]) = w
    /\ i > 1 => s[i-1] \in SpaceToks \cup PunctToks \cup NonAsciiToks
    /\ i < Len(s) => s[i+1] \in SpaceToks \cup PunctToks \cup NonAsciiToks

\* the occurrences of FROM INFORMATION_SCHEMA.TABLES without a dataset:
\* <<i, j>>, FROM at i, white space between, INFORMATION_SCHEMA at j
UnqualifiedOccurrences(s) ==
  UNION { { <<i, j>> : j \in { j \in (i + 2)..Len(s) :
                                 /\ \A x \in (i + 1)..(j - 1) : s[x] \in SpaceToks
                                 /\ At(s, j) = "INFORMATION_SCHEMA"
                                 /\ At(s, j + 1) = "."
                                 /\ At(s, j + 2) = "TABLES" } }
          : i \in { i \in 1..Len(s) : At(s, i) = "FROM" } }

\* the occurrences of FROM <dataset>.INFORMATION_SCHEMA.TABLES:
\* <<i, j, k>>, FROM at i, white space between, the dataset at j..k-1
QualifiedOccurrences(s) ==
  UNION { UNION { { <<i, j, k>> : k \in { k \in (j + 1)..Len(s) :
                                 /\ \A x \in j..(k - 1) : IsWord(s[x])
                                 /\ At(s, k) = "."
                                 /\ At(s, k + 1) = "INFORMATION_SCHEMA"
                                 /\ At(s, k + 2) = "."
                                 /\ At(s, k + 3) = "TABLES" } }
                  : j \in { j \in (i + 2)..Len(s) :
                                 \A x \in (i + 1)..(j - 1) : s[x] \in SpaceToks } }
          : i \in { i \in 1..Len(s) : At(s, i) = "FROM" } }

\* the fully qualified, backtick-quoted reference for occurrence o of s
QualifiedReference(s, p, o) ==
  <<"FROM", " ", Backtick>> \o p \o <<".">> \o SubSeq(s, o[2], o[3] - 1)
    \o <<".", "INFORMATION_SCHEMA", ".", "TABLES", Backtick>>

\* by how much the rewrite of occurrence o lengthens the text
Growth(s, p, o) == Len(QualifiedReference(s, p, o)) - (o[3] + 4 - o[1])

RECURSIVE TotalGrowth(_, _, _)
TotalGrowth(s, p, os) ==
  IF os = {} THEN 0
  ELSE LET o == CHOOSE x \in os : TRUE
       IN  Growth(s, p, o) + TotalGrowth(s, p, os \ {o})

\* by how much position q of s is moved by the rewrites before it
ShiftAt(s, p, q) == TotalGrowth(s, p, { o \in QualifiedOccurrences(s) : o[1] < q })

InOccurrence(s, q) == \E o \in QualifiedOccurrences(s) : o[1] <= q /\ q <= o[3] + 3

QueryCalled == req.name = "query"
Rejected == result.kind = "thrown" \/ (result.kind = "returned" /\ result.isError)
ReturnedError == result.kind = "returned" /\ result.isError
LastReplyFailed == replies # <<>> /\ ~replies[Len(replies)].ok

----------------------------------------------------------------------------
(* Properties of the query gateway *)

\* C1: a query call whose SQL holds a forbidden keyword as a standalone word, in
\* any letter case and also inside a string literal or a comment, is rejected,
\* and bigquery.query is never called during that invocation.
C1_ForbiddenRejectedBeforeWarehouse ==
  (QueryCalled /\ req.sqlGiven /\ HasStandaloneForbiddenWord(req.sql))
    => (pc = "done" /\ Rejected /\ calls = <<>> /\ replies = <<>>)

C1_Witness ==
  /\ QueryCalled
  /\ \E i \in 1..Len(req.sql) : i > 1 /\ req.sql[i-1] = "'" /\ req.sql[i] = "DROP"
  /\ pc = "done"
  /\ Rejected

\* C2: every per-call fault of the query tool (forbidden keyword, missing dataset
\* qualifier, remote execution failure) ends the call with a returned tool result
\* carrying the error flag; none is thrown past the dispatcher.
C2_QueryFaultsReturned ==
  (/\ QueryCalled
   /\ pc = "done"
   /\ req.sqlGiven
   /\ \/ HasStandaloneForbiddenWord(req.sql)
      \/ UnqualifiedOccurrences(req.sql) # {}
      \/ LastReplyFailed)
    => ReturnedError

C4_UnqualifiedAlwaysUsageError ==
  (QueryCalled /\ req.sqlGiven /\ UnqualifiedOccurrences(req.sql) # {})
    => (/\ pc = "done"
        /\ ReturnedError
        /\ result.message = DatasetMessage
        /\ calls = <<>>)

\* C4 amended: the same for the calls whose SQL passes the keyword guard, also
\* when other occurrences carry a dataset, before or after the unqualified one.
C4_UnqualifiedUsageErrorAfterGuard ==
  (/\ QueryCalled
   /\ req.sqlGiven
   /\ UnqualifiedOccurrences(req.sql) # {}
   /\ ~HasStandaloneForbiddenWord(req.sql))
    => (/\ pc = "done"
        /\ ReturnedError
        /\ result.prefix = QueryErrorPrefix
        /\ result.message = DatasetMessage
        /\ calls = <<>>
        /\ replies = <<>>)

\* a qualified occurrence stands before the unqualified one
C4_Witness ==
  /\ QueryCalled
  /\ \E u \in UnqualifiedOccurrences(req.sql), o \in QualifiedOccurrences(req.sql) : o[1] < u[1]
  /\ ~HasStandaloneForbiddenWord(req.sql)
  /\ ReturnedError
  /\ result.message = DatasetMessage

PassesGuardAndRewrite ==
  /\ QueryCalled
  /\ req.sqlGiven
  /\ ~HasStandaloneForbiddenWord(req.sql)
  /\ UnqualifiedOccurrences(req.sql) = {}

\* the text sent to the warehouse: rewritten when it names INFORMATION_SCHEMA
SentText ==
  IF includesInformationSchema(req.sql)
  THEN qualifyTablePath(req.sql, config.projectId).text
  ELSE req.sql

OneRequestWith(cap) ==
  /\ pc \in {"await", "done"}
  /\ Len(calls) = 1
  /\ calls[1].op = "query"
  /\ calls[1].query = SentText
  /\ calls[1].location = config.location
  /\ calls[1].maximumBytesBilled = cap
  /\ (pc = "done" /\ replies[1].ok)
       => (/\ result.kind = "returned"
           /\ ~result.isError
           /\ result.payload = replies[1].rows)

\* C7 as stated: a query call that passes the guard and the rewrite sends exactly
\* one request, carrying the (possibly rewritten) SQL, the configured location and
\* as byte cap the caller's maximumBytesBilled when given or 1000000000 when
\* absent; on success it returns the rows received with isError = false.
C7_OneRequestCapWhenGiven ==
  PassesGuardAndRewrite
    => OneRequestWith(IF req.maximumBytesBilled = Undefined
                      THEN "1000000000" ELSE req.maximumBytesBilled)

\* C7 amended: the byte cap is the caller's maximumBytesBilled when it is given
\* and not empty, and 1000000000 when it is absent or the empty string.
C7_OneRequestCapWhenNonEmpty ==
  PassesGuardAndRewrite
    => OneRequestWith(IF req.maximumBytesBilled \in {Undefined, ""}
                      THEN "1000000000" ELSE req.maximumBytesBilled)

\* a rewritten text was sent with the caller's cap and the rows came back
C7_Witness ==
  /\ PassesGuardAndRewrite
  /\ QualifiedOccurrences(req.sql) # {}
  /\ req.maximumBytesBilled = "500"
  /\ pc = "done"
  /\ replies[1].ok
  /\ replies[1].rows # <<>>
  /\ result.payload = replies[1].rows

----------------------------------------------------------------------------
(* Properties of the handlers that call the warehouse *)

\* C8: in every tool or resource invocation, once one warehouse call fails the
\* invocation issues no further warehouse call and does not repeat the failed
\* one; it ends and reports the failure.
C8_FailureEndsInvocation ==
  \A n \in 1..Len(replies) :
    ~replies[n].ok
      => /\ n = Len(replies)
         /\ Len(calls) = n
         /\ pc = "done"
         /\ Rejected
         /\ result.message = replies[n].raised.message

\* a metadata call failed after earlier calls had succeeded
C8_Witness ==
  /\ req.name = "get_schema_insights"
  /\ Len(replies) >= 4
  /\ calls[Len(calls)].op = "getMetadata"
  /\ LastReplyFailed
  /\ pc = "done"
  /\ ReturnedError

----------------------------------------------------------------------------
(* JavaScript values as analyze_results meets them.  A value is a record:
   t is its type, n/d its numeric value as a fraction in lowest terms (d = 0
   is NaN), s its characters when it is a string. *)

Abs(i) == IF i < 0 THEN -i ELSE i

RECURSIVE Gcd(_, _)
Gcd(a, b) == IF b = 0 THEN a ELSE Gcd(b, a % b)

JsValue(t, n, d, s) == [t |-> t, n |-> n, d |-> d, s |-> s]

NaN == JsValue("number", 0, 0, <<>>)

\* the number n/d, d # 0
Rat(n, d) ==
  LET g == Gcd(Abs(n), Abs(d))
      sg == IF d < 0 THEN -1 ELSE 1
  IN  JsValue("number", sg * (n \div g), sg * (d \div g), <<>>)

Num(n) == JsValue("number", n, 1, <<>>)
Str(s) == JsValue("string", 0, 1, s)
Bool(b) == JsValue("boolean", IF b THEN 1 ELSE 0, 1, <<>>)
NullValue == JsValue("null", 0, 1, <<>>)
ObjectValue == JsValue("object", 0, 1, <<>>)    \* a nested object
UndefinedValue == JsValue("undefined", 0, 1, <<>>)

IsNaNValue(v) == v.t = "number" /\ v.d = 0

Digits == <<"0", "1", "2", "3", "4", "5", "6", "7", "8", "9">>

IsDigit(c) == \E i \in 1..10 : Digits[i] = c

DigitValue(c) == (CHOOSE i \in 1..10 : Digits[i] = c) - 1

RECURSIVE DigitsValue(_)
DigitsValue(s) ==
  IF s = <<>> THEN 0
  ELSE 10 * DigitsValue(SubSeq(s, 1, Len(s) - 1)) + DigitValue(s[Len(s)])

\* Number(text) for texts made of digits, "-" and letters: the empty text is 0,
\* an optionally signed run of digits is its value, anything else is NaN
StringToNumber(s) ==
  LET body == IF s # <<>> /\ s[1] = "-" THEN Tail(s) ELSE s
  IN  IF s = <<>> THEN Num(0)
      ELSE IF body # <<>> /\ \A i \in 1..Len(body) : IsDigit(body[i])
      THEN Num((IF s[1] = "-" THEN -1 ELSE 1) * DigitsValue(body))
      ELSE NaN

\* the implicit conversion to number of the operators -, /, isNaN, Math.min
ToNumber(v) ==
  CASE v.t = "number" -> v
    [] v.t = "boolean" -> Num(v.n)
    [] v.t = "null" -> Num(0)
    [] v.t = "string" -> StringToNumber(v.s)
    [] OTHER -> NaN

RECURSIVE NatToDigits(_)
NatToDigits(n) ==
  IF n < 10 THEN << Digits[n + 1] >>
  ELSE Append(NatToDigits(n \div 10), Digits[(n % 10) + 1])

\* the implicit conversion to text of + with a string operand (whole numbers,
\* booleans, null, undefined and strings)
ToText(v) ==
  CASE v.t = "string" -> v.s
    [] v.t = "boolean" -> IF v.n = 1 THEN <<"true">> ELSE <<"false">>
    [] v.t = "null" -> <<"null">>
    [] v.t = "undefined" -> <<"undefined">>
    [] v.t = "object" -> <<"[object Object]">>
    [] v.t = "number" /\ v.d = 0 -> <<"NaN">>
    [] v.t = "number" /\ v.d = 1 /\ v.n < 0 -> <<"-">> \o NatToDigits(-v.n)
    [] v.t = "number" /\ v.d = 1 /\ v.n >= 0 -> NatToDigits(v.n)
    [] OTHER -> <<"fraction">>

\* a + b of numbers
NumAdd(x, y) ==
  IF x.d = 0 \/ y.d = 0 THEN NaN ELSE Rat(x.n * y.d + y.n * x.d, x.d * y.d)

\* x - y and x * y of numbers
NumSub(x, y) ==
  IF x.d = 0 \/ y.d = 0 THEN NaN ELSE Rat(x.n * y.d - y.n * x.d, x.d * y.d)

NumMul(x, y) ==
  IF x.d = 0 \/ y.d = 0 THEN NaN ELSE Rat(x.n * y.n, x.d * y.d)

\* a + b: concatenation as soon as one operand is a string
Plus(a, b) ==
  IF a.t = "string" \/ b.t = "string" THEN Str(ToText(a) \o ToText(b))
  ELSE NumAdd(ToNumber(a), ToNumber(b))

\* a / k for a whole number k > 0
DivideBy(a, k) ==
  LET x == ToNumber(a)
  IN  IF x.d = 0 THEN NaN ELSE Rat(x.n, x.d * k)

\* x < y of numbers that are not NaN
NumLess(x, y) == x.n * y.d < y.n * x.d

\* isNaN(val)
isNaN(v) == IsNaNValue(ToNumber(v))

\* typeof
typeof(v) ==
  CASE v.t = "null" -> "object"
    [] OTHER -> v.t

----------------------------------------------------------------------------
(* analyze_results *)

\* the value JSON.parse returns: an array of elements, or another JSON value;
\* shape "malformed" is a text JSON.parse rejects
Parsed(shape, elems) == [shape |-> shape, elems |-> elems]

\* an element of the array: an object with its own keys in order, or null
Row(cols) == [kind |-> "object", cols |-> cols]
NullElement == [kind |-> "null", cols |-> <<>>]

Cell(k, v) == [k |-> k, v |-> v]

NoReport == [none |-> TRUE]

\* request.params.arguments?.focus and ?.type, absent
NoArgs == [focus |-> Undefined, type |-> Undefined]

EmptyDataMessage == "The provided data is empty or not in the expected format (array of objects)."
AnalyzeErrorPrefix == "Error analyzing data: "

\* a sample taken from the last element
sampleRow_last(elems) == elems[Len(elems)]

\* data[0], the element the columns and their types are read from
sampleRow(elems) == elems[1]

\* Object.keys(data[0])
ObjectKeys(e) == [i \in 1..Len(e.cols) |-> e.cols[i].k]

\* row[col]: undefined when the row has no such key
Get(e, col) ==
  IF \E i \in 1..Len(e.cols) : e.cols[i].k = col
  THEN e.cols[CHOOSE i \in 1..Len(e.cols) : e.cols[i].k = col].v
  ELSE UndefinedValue

\* a classification without the branch for null
columnTypeOf_noUnknown(sampleValue) ==
  IF typeof(sampleValue) = "number" THEN "numeric"
  ELSE IF typeof(sampleValue) = "string" THEN "string"
  ELSE IF typeof(sampleValue) = "boolean" THEN "boolean"
  ELSE typeof(sampleValue)

\* the branches that classify a column by its value in the first row
columnTypeOf(sampleValue) ==
  IF typeof(sampleValue) = "number" THEN "numeric"
  ELSE IF typeof(sampleValue) = "string" THEN "string"
  ELSE IF typeof(sampleValue) = "boolean" THEN "boolean"
  ELSE IF sampleValue.t = "null" THEN "unknown"
  ELSE typeof(sampleValue)

\* val !== null && !isNaN(val)
keeps(val) == val.t # "null" /\ ~isNaN(val)

\* data.map(row => row[col]).filter(...)
valuesOf(elems, col) ==
  SelectSeq([i \in 1..Len(elems) |-> Get(elems[i], col)], keeps)

\* values.reduce((a, b) => a + b, 0)
RECURSIVE reduceSum(_, _, _)
reduceSum(values, i, acc) ==
  IF i > Len(values) THEN acc
  ELSE reduceSum(values, i + 1, Plus(acc, values[i]))

\* Math.min(...values) and Math.max(...values), values not empty
MathMin(values) ==
  LET nums == [i \in 1..Len(values) |-> ToNumber(values[i])]
  IN  IF \E i \in 1..Len(nums) : nums[i].d = 0 THEN NaN
      ELSE nums[CHOOSE i \in 1..Len(nums) :
                  \A j \in 1..Len(nums) : ~NumLess(nums[j], nums[i])]

MathMax(values) ==
  LET nums == [i \in 1..Len(values) |-> ToNumber(values[i])]
  IN  IF \E i \in 1..Len(nums) : nums[i].d = 0 THEN NaN
      ELSE nums[CHOOSE i \in 1..Len(nums) :
                  \A j \in 1..Len(nums) : ~NumLess(nums[i], nums[j])]

\* v put into a sorted sequence after every element that is not greater
RECURSIVE insertSorted(_, _)
insertSorted(sorted, v) ==
  IF sorted = <<>> THEN <<v>>
  ELSE IF NumLess(ToNumber(v), ToNumber(sorted[Len(sorted)]))
  THEN Append(insertSorted(SubSeq(sorted, 1, Len(sorted) - 1), v), sorted[Len(sorted)])
  ELSE Append(sorted, v)

\* [...values].sort((a, b) => a - b): a stable sort on the numeric order
RECURSIVE sortAscending(_)
sortAscending(values) ==
  IF values = <<>> THEN <<>>
  ELSE insertSorted(sortAscending(SubSeq(values, 1, Len(values) - 1)),
                    values[Len(values)])

\* the median expression on the sorted values (indices from 1 here)
medianOf(sorted) ==
  LET mid == Len(sorted) \div 2
  IN  IF Len(sorted) % 2 = 0
      THEN DivideBy(Plus(sorted[mid], sorted[mid + 1]), 2)
      ELSE sorted[mid + 1]

\* the entry of statistics[col], values not empty
statisticsOf(values) ==
  LET sum == reduceSum(values, 1, Num(0))
  IN  [min |-> MathMin(values),
       max |-> MathMax(values),
       avg |-> DivideBy(sum, Len(values)),
       median |-> medianOf(sortAscending(values)),
       sum |-> sum]

\* stats.x.toFixed(2) exists on numbers only
hasToFixed(v) == typeof(v) = "number"

\* columns ... .slice(0, 5) and topValues ... .slice(0, 5)
CategoricalLimit == 5
TopValuesLimit == 5

\* an own property key that is an array index ("0", "2", "10"): such keys are
\* enumerated before all others, in ascending numeric order
IsIndexKey(key) ==
  /\ key # <<>>
  /\ \A i \in 1..Len(key) : IsDigit(key[i])
  /\ (Len(key) = 1 \/ key[1] # "0")

Entry(key, count) == [key |-> key, count |-> count]

\* valueMap[val] = (valueMap[val] || 0) + 1 on the entries in insertion order
countInto(entries, key) ==
  IF \E i \in 1..Len(entries) : entries[i].key = key
  THEN [i \in 1..Len(entries) |->
          IF entries[i].key = key THEN Entry(key, entries[i].count + 1) ELSE entries[i]]
  ELSE Append(entries, Entry(key, 1))

\* data.forEach(row => ...) filling valueMap for one column
RECURSIVE valueMapOf(_, _, _, _)
valueMapOf(elems, col, i, entries) ==
  IF i > Len(elems) THEN entries
  ELSE LET val == Get(elems[i], col)
       IN  valueMapOf(elems, col, i + 1,
                      IF val.t # "null" /\ val.t # "undefined"
                      THEN countInto(entries, ToText(val))
                      ELSE entries)

RECURSIVE insertByIndex(_, _)
insertByIndex(sorted, e) ==
  IF sorted = <<>> THEN <<e>>
  ELSE IF DigitsValue(e.key) < DigitsValue(sorted[Len(sorted)].key)
  THEN Append(insertByIndex(SubSeq(sorted, 1, Len(sorted) - 1), e), sorted[Len(sorted)])
  ELSE Append(sorted, e)

RECURSIVE sortByIndex(_)
sortByIndex(entries) ==
  IF entries = <<>> THEN <<>>
  ELSE insertByIndex(sortByIndex(SubSeq(entries, 1, Len(entries) - 1)),
                     entries[Len(entries)])

\* Object.entries(valueMap): index keys first in ascending order, then the
\* other keys in insertion order
objectEntries(entries) ==
  LET IsIndex(e) == IsIndexKey(e.key)
      IsOther(e) == ~IsIndexKey(e.key)
  IN  sortByIndex(SelectSeq(entries, IsIndex)) \o SelectSeq(entries, IsOther)

RECURSIVE insertByCount(_, _)
insertByCount(sorted, e) ==
  IF sorted = <<>> THEN <<e>>
  ELSE IF sorted[Len(sorted)].count < e.count
  THEN Append(insertByCount(SubSeq(sorted, 1, Len(sorted) - 1), e), sorted[Len(sorted)])
  ELSE Append(sorted, e)

\* .sort((a, b) => b[1] - a[1]): a stable sort on descending count
RECURSIVE sortByCount(_)
sortByCount(entries) ==
  IF entries = <<>> THEN <<>>
  ELSE insertByCount(sortByCount(SubSeq(entries, 1, Len(entries) - 1)),
                     entries[Len(entries)])

\* a slice that keeps everything
sliceFirst_all(seq, n) == seq

\* seq.slice(0, n)
sliceFirst(seq, n) == SubSeq(seq, 1, IF Len(seq) < n THEN Len(seq) ELSE n)

\* x.toFixed(2) of a number x >= 0, in hundredths (6667 is "66.67"); a tie is
\* rounded up
toFixed2(x) == (2 * 100 * x.n + x.d) \div (2 * x.d)

\* categoricalAnalysis[col]; percentage is in hundredths of a percent
categoricalOf(elems, col) ==
  LET valueMap == objectEntries(valueMapOf(elems, col, 1, <<>>))
      top == sliceFirst(sortByCount(valueMap), TopValuesLimit)
  IN  [col |-> col,
       distinctCount |-> Len(valueMap),
       topValues |-> [i \in 1..Len(top) |->
                        [value |-> top[i].key,
                         count |-> top[i].count,
                         percentage |-> toFixed2(Rat(top[i].count * 100, Len(elems)))]]]

\* a comparison that keeps the letter case
Lower_asWritten(t) == t

\* focus.toLowerCase()
Lower(t) ==
  CASE t = "TRENDS" -> "trends"
    [] t = "Outliers" -> "outliers"
    [] t = "Distribution" -> "distribution"
    [] OTHER -> t

\* Array(5) of the histogram
BinCount == 5

NoFocus == [kind |-> "", lines |-> <<>>]

\* one line of the trend analysis
trendOf(col, st) ==
  [col |-> col, range |-> NumSub(st.max, st.min), min |-> st.min, max |-> st.max]

\* one line of the outlier detection: the rows whose value lies more than
\* 2 standard deviations from the mean, compared on the squares
outliersOf(elems, col, st) ==
  LET values == valuesOf(elems, col)
      Sq(v) == LET dv == NumSub(ToNumber(v), ToNumber(st.avg)) IN NumMul(dv, dv)
      sumSq[i \in 0..Len(values)] ==
        IF i = 0 THEN Num(0) ELSE NumAdd(sumSq[i - 1], Sq(values[i]))
      variance == DivideBy(sumSq[Len(values)], Len(values))
      IsOutlier(row) ==
        LET val == Get(row, col)
        IN  /\ keeps(val)
            /\ variance.d # 0
            /\ Sq(val).d # 0
            /\ NumLess(NumMul(Num(4), variance), Sq(val))
  IN  [col |-> col,
       outliers |-> Cardinality({ i \in 1..Len(elems) : IsOutlier(elems[i]) })]

\* Math.min(Math.floor((val - min) / binSize), 4) with binSize = range / 5;
\* -1 stands for NaN (0 / 0 when range is 0), which is no index of bins
binIndexOf(val, st) ==
  LET range == NumSub(st.max, st.min)
      offset == NumSub(ToNumber(val), st.min)
      scaled == Rat(offset.n * BinCount * range.d, offset.d * range.n)
      floor == scaled.n \div scaled.d
  IN  IF range.n = 0 THEN -1
      ELSE IF floor < BinCount - 1 THEN floor ELSE BinCount - 1

\* one line of the distribution analysis
distributionOf(elems, col, st) ==
  LET values == valuesOf(elems, col)
  IN  [col |-> col,
       bins |-> [b \in 1..BinCount |->
                   Cardinality({ i \in 1..Len(values) :
                                   binIndexOf(values[i], st) = b - 1 })]]

\* a catch that hands every error on
analyzeCatch_rethrow(e) == Thrown(e)

\* catch (error) of the analyze_results branch
analyzeCatch(e) ==
  IF e.isErrorObj THEN ToolResult(TRUE, AnalyzeErrorPrefix, e.message, <<>>)
  ELSE Thrown(e)

Analysis(res, rep) == [result |-> res, report |-> rep]

RangeOf(seq) == { seq[i] : i \in 1..Len(seq) }

\* The analyze_results branch from JSON.parse to its return.  Every step that
\* can raise is a step on which the code raises a SyntaxError or a TypeError:
\* JSON.parse, Object.keys(null), row[col] on a null row, toFixed on a value
\* that is not a number, and a property read on a missing statistics entry.
\* The categorical and the focused sections read the same rows and columns and
\* raise on no other input.
analyzeResults(d, focus) ==
  IF d.shape = "malformed"
  THEN Analysis(analyzeCatch(ErrorObj("SyntaxError")), NoReport)
  ELSE IF d.shape # "array" \/ Len(d.elems) = 0
  THEN Analysis(ToolResult(TRUE, "", EmptyDataMessage, <<>>), NoReport)
  ELSE IF sampleRow(d.elems).kind = "null"
  THEN Analysis(analyzeCatch(ErrorObj("TypeError")), NoReport)
  ELSE
    LET columns == ObjectKeys(sampleRow(d.elems))
        columnTypes ==
          [c \in RangeOf(columns) |-> columnTypeOf(Get(sampleRow(d.elems), c))]
        IsNumeric(c) == columnTypes[c] = "numeric"
        IsString(c) == columnTypes[c] = "string"
        numericColumns == SelectSeq(columns, IsNumeric)
        stringColumns == SelectSeq(columns, IsString)
        readsEveryRow == numericColumns # <<>> \/ stringColumns # <<>>
        nullRow == \E i \in 1..Len(d.elems) : d.elems[i].kind = "null"
        described == { c \in RangeOf(numericColumns) : valuesOf(d.elems, c) # <<>> }
        statistics == [c \in described |-> statisticsOf(valuesOf(d.elems, c))]
        printable(st) ==
          /\ hasToFixed(st.min) /\ hasToFixed(st.max) /\ hasToFixed(st.avg)
          /\ hasToFixed(st.median) /\ hasToFixed(st.sum)
        analysed == sliceFirst(stringColumns, CategoricalLimit)
        categoricalAnalysis ==
          [i \in 1..Len(analysed) |-> categoricalOf(d.elems, analysed[i])]
        IsDescribed(c) == c \in described
        withStatistics == SelectSeq(numericColumns, IsDescribed)
        lineOf(kind, c) ==
          CASE kind = "trends" -> trendOf(c, statistics[c])
            [] kind = "outliers" -> outliersOf(d.elems, c, statistics[c])
            [] kind = "distribution" -> distributionOf(d.elems, c, statistics[c])
        focusedInsights ==
          IF Falsy(focus) THEN NoFocus
          ELSE IF Lower(focus) \in {"trends", "outliers", "distribution"}
                  /\ numericColumns # <<>>
          THEN [kind |-> Lower(focus),
                lines |-> [i \in 1..Len(withStatistics) |->
                             lineOf(Lower(focus), withStatistics[i])]]
          ELSE NoFocus
    IN  IF readsEveryRow /\ nullRow
        THEN Analysis(analyzeCatch(ErrorObj("TypeError")), NoReport)
        ELSE IF \E c \in described : ~printable(statistics[c])
        THEN Analysis(analyzeCatch(ErrorObj("TypeError")), NoReport)
        ELSE IF numericColumns # <<>> /\ numericColumns[1] \notin described
        THEN Analysis(analyzeCatch(ErrorObj("TypeError")), NoReport)
        ELSE Analysis(ToolResult(FALSE, "", "", <<>>),
                      [rowCount |-> Len(d.elems),
                       columns |-> columns,
                       columnTypes |-> columnTypes,
                       numericColumns |-> numericColumns,
                       statistics |-> statistics,
                       categoricalAnalysis |-> categoricalAnalysis,
                       focusedInsights |-> focusedInsights])

----------------------------------------------------------------------------
(* generate_visualization *)

VisualizeErrorPrefix == "Error generating visualization: "

\* data.slice(0, 20) of the bar and line charts, data.slice(0, 10) of the table
ChartRowLimit == 20
TableRowLimit == 10

\* the branches that classify a column by its value in the first row
chartColumnTypeOf(sampleValue) ==
  IF typeof(sampleValue) = "number" THEN "numeric"
  ELSE IF typeof(sampleValue) = "string" THEN "string"
  ELSE IF typeof(sampleValue) = "boolean" THEN "boolean"
  ELSE typeof(sampleValue)

\* (request.params.arguments?.type || 'bar').toLowerCase()
LowerType(t) ==
  CASE t = "PIE" -> "pie"
    [] t = "Line" -> "line"
    [] OTHER -> t

visTypeOf(type) == LowerType(IF Falsy(type) THEN "bar" ELSE type)

\* switch (visType)
chartTypeOf(visType) ==
  IF visType \in {"bar", "line", "pie", "scatter"} THEN visType ELSE "bar"

\* an X column that is always the first column by position
xColumnOf_firstColumn(columns, numericColumns, categoricalColumns) ==
  IF columns # <<>> THEN columns[1] ELSE Undefined

\* xColumn; columns[0] of no columns is undefined
xColumnOf(columns, numericColumns, categoricalColumns) ==
  IF categoricalColumns # <<>> THEN categoricalColumns[1]
  ELSE IF numericColumns # <<>> THEN numericColumns[1]
  ELSE IF columns # <<>> THEN columns[1]
  ELSE Undefined

\* yColumn
yColumnOf(columns, numericColumns, xColumn) ==
  IF numericColumns # <<>>
  THEN IF xColumn = numericColumns[1] /\ Len(numericColumns) > 1
       THEN numericColumns[2]
       ELSE numericColumns[1]
  ELSE IF Len(columns) > 1 THEN columns[2]
  ELSE IF columns # <<>> THEN columns[1]
  ELSE Undefined

\* JavaScript truthiness of a number
FalsyNumber(v) == v.d = 0 \/ v.n = 0

\* aggregatedData[key] = (aggregatedData[key] || 0) + amount
addInto(entries, key, amount) ==
  IF \E i \in 1..Len(entries) : entries[i].key = key
  THEN [i \in 1..Len(entries) |->
          IF entries[i].key = key
          THEN Entry(key, NumAdd(IF FalsyNumber(entries[i].count) THEN Num(0)
                                 ELSE entries[i].count,
                                 amount))
          ELSE entries[i]]
  ELSE Append(entries, Entry(key, NumAdd(Num(0), amount)))

\* data.forEach(row => ...) of the pie chart
RECURSIVE aggregate(_, _, _, _, _, _)
aggregate(elems, xColumn, yColumn, summing, i, entries) ==
  IF i > Len(elems) THEN entries
  ELSE aggregate(elems, xColumn, yColumn, summing, i + 1,
                 addInto(entries, ToText(Get(elems[i], xColumn)),
                         IF summing THEN ToNumber(Get(elems[i], yColumn)) ELSE Num(1)))

\* a limit that keeps every row
limitedData_all(elems) == elems

\* data.length > 20 ? data.slice(0, 20) : data
limitedData(elems) ==
  IF Len(elems) > ChartRowLimit THEN sliceFirst(elems, ChartRowLimit) ELSE elems

\* catch (error) of the generate_visualization branch
visualizeCatch(e) ==
  IF e.isErrorObj THEN ToolResult(TRUE, VisualizeErrorPrefix, e.message, <<>>)
  ELSE Thrown(e)

\* The generate_visualization branch from JSON.parse to its return.  The steps
\* that can raise are JSON.parse, Object.keys(null) and a property read on a
\* null row, in the rows the chart reads or in the first 10 rows of the table.
generateVisualization(d, type) ==
  IF d.shape = "malformed"
  THEN Analysis(visualizeCatch(ErrorObj("SyntaxError")), NoReport)
  ELSE IF d.shape # "array" \/ Len(d.elems) = 0
  THEN Analysis(ToolResult(TRUE, "", EmptyDataMessage, <<>>), NoReport)
  ELSE IF sampleRow(d.elems).kind = "null"
  THEN Analysis(visualizeCatch(ErrorObj("TypeError")), NoReport)
  ELSE
    LET columns == ObjectKeys(sampleRow(d.elems))
        columnTypes ==
          [c \in RangeOf(columns) |-> chartColumnTypeOf(Get(sampleRow(d.elems), c))]
        IsNumeric(c) == columnTypes[c] = "numeric"
        IsCategorical(c) == columnTypes[c] \in {"string", "boolean"}
        numericColumns == SelectSeq(columns, IsNumeric)
        categoricalColumns == SelectSeq(columns, IsCategorical)
        xColumn == xColumnOf(columns, numericColumns, categoricalColumns)
        yColumn == yColumnOf(columns, numericColumns, xColumn)
        chartType == chartTypeOf(visTypeOf(type))
        charted == IF chartType \in {"pie", "scatter"} THEN d.elems
                   ELSE limitedData(d.elems)
        tabled == IF columns = <<>> THEN <<>> ELSE sliceFirst(d.elems, TableRowLimit)
        nullRow == \/ \E i \in 1..Len(charted) : charted[i].kind = "null"
                   \/ \E i \in 1..Len(tabled) : tabled[i].kind = "null"
        slices == objectEntries(aggregate(d.elems, xColumn, yColumn,
                                          numericColumns # <<>>, 1, <<>>))
        labels ==
          CASE chartType = "pie" -> [i \in 1..Len(slices) |-> Str(slices[i].key)]
            [] chartType = "scatter" ->
                 [i \in 1..Len(charted) |-> ToNumber(Get(charted[i], xColumn))]
            [] OTHER -> [i \in 1..Len(charted) |-> Get(charted[i], xColumn)]
        values ==
          CASE chartType = "pie" -> [i \in 1..Len(slices) |-> slices[i].count]
            [] chartType = "scatter" ->
                 [i \in 1..Len(charted) |-> ToNumber(Get(charted[i], yColumn))]
            [] OTHER -> [i \in 1..Len(charted) |-> Get(charted[i], yColumn)]
    IN  IF nullRow
        THEN Analysis(visualizeCatch(ErrorObj("TypeError")), NoReport)
        ELSE Analysis(ToolResult(FALSE, "", "", <<>>),
                      [columns |-> columns,
                       columnTypes |-> columnTypes,
                       xColumn |-> xColumn,
                       yColumn |-> yColumn,
                       chartType |-> chartType,
                       labels |-> labels,
                       values |-> values])

----------------------------------------------------------------------------
(* qualifyTablePath on its own *)

None == [none |-> TRUE]

IdleServer ==
  /\ config = [projectId |-> <<"proj">>, location |-> "US"]
  /\ IdleHandler

QInit ==
  /\ IdleServer
  /\ \/ qsql \in SqlTexts /\ qproj = <<"proj">>
     \/ qsql \in ShortTexts /\ qproj \in ProjectIds
  /\ qout = None
  /\ qout2 = None
  /\ QuietAnalyze
  /\ QuietHost

Qualify ==
  /\ qout = None
  /\ qout' = qualifyTablePath(qsql, qproj)
  /\ UNCHANGED <<qsql, qproj, qout2, serverVars, analyzeVars, hostVars>>

Requalify ==
  /\ qout # None
  /\ ~qout.threw
  /\ qout2 = None
  /\ qout2' = qualifyTablePath(qout.text, qproj)
  /\ UNCHANGED <<qsql, qproj, qout, serverVars, analyzeVars, hostVars>>

QNext == Qualify \/ Requalify

SpecQualify == QInit /\ [][QNext]_vars

----------------------------------------------------------------------------
(* Properties of qualifyTablePath *)

\* C5: when every occurrence of FROM <dataset>.INFORMATION_SCHEMA.TABLES (any
\* letter case) carries a dataset, qualifyTablePath replaces every occurrence,
\* not only the first, by FROM and the backtick-quoted path
\* <project id>.<dataset>.INFORMATION_SCHEMA.TABLES with the dataset as written,
\* and leaves all other text unchanged.
C5_EveryOccurrenceQualified ==
  (qout # None /\ UnqualifiedOccurrences(qsql) = {})
    => /\ ~qout.threw
       /\ Len(qout.text) = Len(qsql) + ShiftAt(qsql, qproj, Len(qsql) + 1)
       /\ \A o \in QualifiedOccurrences(qsql) :
            LET ref == QualifiedReference(qsql, qproj, o)
                at == o[1] + ShiftAt(qsql, qproj, o[1])
            IN  SubSeq(qout.text, at, at + Len(ref) - 1) = ref
       /\ \A q \in 1..Len(qsql) :
            ~InOccurrence(qsql, q) => qout.text[q + ShiftAt(qsql, qproj, q)] = qsql[q]

\* two occurrences, in different letter case, were both rewritten
C5_Witness ==
  /\ qout # None
  /\ ~qout.threw
  /\ UnqualifiedOccurrences(qsql) = {}
  /\ Cardinality(QualifiedOccurrences(qsql)) = 2
  /\ \E o \in QualifiedOccurrences(qsql) : qsql[o[1]] = "From"
  /\ Len(qout.text) > Len(qsql)

\* C6: the rewrite is idempotent: where qualifyTablePath succeeds on s,
\* qualifyTablePath(qualifyTablePath(s, p), p) = qualifyTablePath(s, p); a fully
\* qualified reference is not qualified again and raises no missing-dataset error.
C6_QualifyIdempotent ==
  qout2 # None => (~qout2.threw /\ qout2.text = qout.text)

C6_Witness ==
  /\ qout2 # None
  /\ qout.text # qsql
  /\ QualifiedOccurrences(qsql) # {}
  /\ qout2.text = qout.text

----------------------------------------------------------------------------
(* analyze_results on its own *)

\* the values a row may hold in column a
CellValues ==
  { Num(1), Num(2), Num(3), Num(4), NullValue, Bool(TRUE),
    Str(<<"5">>), Str(<<"x">>) }

\* the elements of the parsed array
Elements ==
  { Row(<< Cell("a", v) >>) : v \in CellValues }
  \cup { Row(<<>>), Row(<< Cell("c", Str(<<"x">>)) >>), NullElement }

RECURSIVE Arrays(_)
Arrays(n) ==
  IF n = 0 THEN { <<>> }
  ELSE Arrays(n - 1)
       \cup { Append(a, e) : a \in { b \in Arrays(n - 1) : Len(b) = n - 1 }, e \in Elements }

\* the data argument after JSON.parse
DataInputs(n) ==
  { Parsed("malformed", <<>>), Parsed("object", <<>>), Parsed("number", <<>>),
    Parsed("null", <<>>) }
  \cup { Parsed("array", a) : a \in Arrays(n) }

AInit ==
  /\ IdleServer
  /\ QuietQualify
  /\ data \in DataInputs(MaxRows)
  /\ report = NoReport
  /\ args = NoArgs
  /\ QuietHost

\* CallToolRequestSchema handler, name = "analyze_results"
AnalyzeResults ==
  /\ pc = "idle"
  /\ LET o == analyzeResults(data, args.focus)
     IN  /\ result' = o.result
         /\ report' = o.report
  /\ pc' = "done"
  /\ req' = [NoReq EXCEPT !.name = "analyze_results"]
  /\ UNCHANGED <<config, frame, calls, replies, data, args, qualifyVars, hostVars>>

ANext == AnalyzeResults

SpecAnalyze == AInit /\ [][ANext]_vars

----------------------------------------------------------------------------
(* Properties of analyze_results *)

Analyzed == pc = "done" /\ req.name = "analyze_results"

NotANonEmptyArray == data.shape # "array" \/ data.elems = <<>>

\* C9: an analyze_results call whose data is malformed JSON, parses to a value
\* that is not an array, or parses to an empty array returns a result with
\* isError = true; and no data at all makes the handler throw: every call ends
\* in a returned result.
C9_AnalyzeNeverThrows ==
  Analyzed =>
    /\ result.kind = "returned"
    /\ NotANonEmptyArray => result.isError

\* malformed JSON came back as an error result made by the catch
C9_Witness ==
  /\ Analyzed
  /\ data.shape = "malformed"
  /\ ReturnedError
  /\ result.prefix = AnalyzeErrorPrefix

\* the numbers column c holds over all rows: its values that are neither null
\* nor absent and that denote a number
NumbersOf(c) ==
  LET all == [i \in 1..Len(data.elems) |-> Get(data.elems[i], c)]
      Counts(v) == v.t \notin {"null", "undefined"} /\ ~IsNaNValue(ToNumber(v))
      kept == SelectSeq(all, Counts)
  IN  [i \in 1..Len(kept) |-> ToNumber(kept[i])]

RECURSIVE Total(_)
Total(nums) ==
  IF nums = <<>> THEN Num(0)
  ELSE NumAdd(Total(SubSeq(nums, 1, Len(nums) - 1)), nums[Len(nums)])

\* the k-th element of nums in ascending order
KthSmallest(nums, k) ==
  CHOOSE x \in RangeOf(nums) :
    /\ Cardinality({ i \in 1..Len(nums) : NumLess(nums[i], x) }) < k
    /\ Cardinality({ i \in 1..Len(nums) : ~NumLess(x, nums[i]) }) >= k

Median(nums) ==
  LET k == Len(nums) \div 2
  IN  IF Len(nums) % 2 = 1 THEN KthSmallest(nums, k + 1)
      ELSE DivideBy(NumAdd(KthSmallest(nums, k), KthSmallest(nums, k + 1)), 2)

RowsOnly ==
  /\ data.shape = "array"
  /\ data.elems # <<>>
  /\ \A i \in 1..Len(data.elems) : data.elems[i].kind = "object"

NumericInFirstRow(c) ==
  /\ c \in RangeOf(ObjectKeys(data.elems[1]))
  /\ Get(data.elems[1], c).t = "number"

\* C10: for an array of rows and every column that is numeric in the first row,
\* the report holds statistics over the numbers of that column in all rows: min
\* the least, max the greatest, sum their total, avg = sum / count, median the
\* middle element in ascending order (odd count) or the average of the two
\* middle elements (even count); a = 1,2,3,4 gives 1, 4, 2.5, 2.5, 10.
C10_StatisticsOverNonNull ==
  (Analyzed /\ RowsOnly) =>
    \A c \in { "a", "c" } :
      NumericInFirstRow(c) =>
        /\ result.kind = "returned"
        /\ ~result.isError
        /\ c \in DOMAIN report.statistics
        /\ LET nums == NumbersOf(c)
               st == report.statistics[c]
           IN  /\ st.min = KthSmallest(nums, 1)
               /\ st.max = KthSmallest(nums, Len(nums))
               /\ st.sum = Total(nums)
               /\ st.avg = DivideBy(Total(nums), Len(nums))
               /\ st.median = Median(nums)

----------------------------------------------------------------------------
(* Columns and their types: analyze_results and generate_visualization on
   the same data *)

MaxLater == 2      \* elements of the array after the first

\* the values a column may hold in the first row, one of each type
TypeValues == { Num(1), Str(<<"x">>), Bool(TRUE), NullValue, ObjectValue }

ColumnNames == <<"a", "b", "c">>

\* the rows whose keys are the first n column names
RECURSIVE RowsOf(_)
RowsOf(n) ==
  IF n = 0 THEN { Row(<<>>) }
  ELSE { Row(Append(r.cols, Cell(ColumnNames[n], v))) : r \in RowsOf(n - 1), v \in TypeValues }

FirstRows == RowsOf(0) \cup RowsOf(1) \cup RowsOf(2) \cup RowsOf(3)

\* the elements after the first: other types in the same columns, a key the
\* first row does not have, and null
LaterElements ==
  { Row(<< Cell("a", Str(<<"y">>)), Cell("b", Num(2)) >>),
    Row(<< Cell("d", Num(3)) >>),
    Row(<< Cell("c", Bool(FALSE)), Cell("d", Str(<<"x">>)) >>),
    NullElement }

RECURSIVE Laters(_)
Laters(n) ==
  IF n = 0 THEN { <<>> }
  ELSE Laters(n - 1)
       \cup { Append(a, e) : a \in { b \in Laters(n - 1) : Len(b) = n - 1 },
                             e \in LaterElements }

ColumnInputs == { Parsed("array", <<f>> \o l) : f \in FirstRows, l \in Laters(MaxLater) }

CInit ==
  /\ IdleServer
  /\ QuietQualify
  /\ data \in ColumnInputs
  /\ report = NoReport
  /\ args = NoArgs
  /\ QuietHost

\* CallToolRequestSchema handler, name = "generate_visualization"
GenerateVisualization ==
  /\ pc = "idle"
  /\ LET o == generateVisualization(data, args.type)
     IN  /\ result' = o.result
         /\ report' = o.report
  /\ pc' = "done"
  /\ req' = [NoReq EXCEPT !.name = "generate_visualization"]
  /\ UNCHANGED <<config, frame, calls, replies, data, args, qualifyVars, hostVars>>

CNext == AnalyzeResults \/ GenerateVisualization

SpecColumns == CInit /\ [][CNext]_vars

----------------------------------------------------------------------------
(* Properties of the columns and their types *)

Reported == pc = "done" /\ report # NoReport

\* the report the same handler gives for the first row alone
FirstRowAlone ==
  LET alone == Parsed("array", << data.elems[1] >>)
  IN  IF req.name = "analyze_results" THEN analyzeResults(alone, args.focus).report
      ELSE generateVisualization(alone, args.type).report

\* C11: in analyze_results and generate_visualization the column list and every
\* column's type tag are functions of the first row alone: whatever the later
\* rows hold, the report has the columns and the tags the same handler gives
\* for the first row on its own, and every column is a key of the first row (a
\* key that appears only in a later row is no column).
C11_ColumnsFromFirstRow ==
  Reported =>
    /\ FirstRowAlone # NoReport
    /\ report.columns = FirstRowAlone.columns
    /\ report.columnTypes = FirstRowAlone.columnTypes
    /\ report.columns = [i \in 1..Len(data.elems[1].cols) |-> data.elems[1].cols[i].k]

\* a report on rows of which a later one holds another type in column a and a
\* key d the first row does not have
C11_Witness ==
  /\ Reported
  /\ Len(data.elems) = 3
  /\ report.columns = <<"a", "b">>
  /\ report.columnTypes["a"] = "numeric"
  /\ \E i \in 2..3 : Get(data.elems[i], "a").t = "string"
  /\ \E i \in 2..3 : Get(data.elems[i], "d").t # "undefined"

Summarized == Reported /\ req.name = "analyze_results"

\* the tags of the report, column by column
TagsReported == { report.columnTypes[c] : c \in DOMAIN report.columnTypes }

\* C12 as stated: every column type tag the Summarizer assigns is one of
\* numeric, string, boolean, date, unknown, whatever the first row's value is.
C12_TagsAmongFive ==
  Summarized => TagsReported \subseteq {"numeric", "string", "boolean", "date", "unknown"}

\* C12 amended: every tag is numeric, string, boolean, unknown or object; a
\* null value gives unknown and only a null does, a nested object gives object
\* and only a nested object does.
C12_TagsWithObject ==
  Summarized =>
    /\ TagsReported \subseteq {"numeric", "string", "boolean", "unknown", "object"}
    /\ \A i \in 1..Len(data.elems[1].cols) :
         LET cell == data.elems[1].cols[i]
         IN  /\ report.columnTypes[cell.k] = "unknown" <=> cell.v.t = "null"
             /\ report.columnTypes[cell.k] = "object" <=> cell.v.t = "object"

\* a report with a nested object and a null in the first row
C12_Witness ==
  /\ Summarized
  /\ Len(data.elems) > 1
  /\ "object" \in TagsReported
  /\ "unknown" \in TagsReported

----------------------------------------------------------------------------
(* The categorical analysis of analyze_results *)

MaxColumns == 7    \* columns of the first row

WideNames == <<"c", "d", "e", "f", "g", "h", "i", "j", "k">>

\* the values of a wide first row: a string, a boolean, a number
WideValues == { Str(<<"x">>), Bool(TRUE), Num(1) }

RECURSIVE WideRows(_)
WideRows(n) ==
  IF n = 0 THEN { Row(<<>>) }
  ELSE WideRows(n - 1)
       \cup { Row(Append(r.cols, Cell(WideNames[n], v))) :
                r \in { q \in WideRows(n - 1) : Len(q.cols) = n - 1 }, v \in WideValues }

\* the values of column c over the rows
CategoryValues ==
  { Str(<<"x">>), Str(<<"y">>), Str(<<"1", "0">>), Str(<<"2">>), NullValue }

RECURSIVE CategoryArrays(_)
CategoryArrays(n) ==
  IF n = 0 THEN { <<>> }
  ELSE CategoryArrays(n - 1)
       \cup { Append(a, Row(<< Cell("c", v) >>)) :
                a \in { b \in CategoryArrays(n - 1) : Len(b) = n - 1 },
                v \in CategoryValues }

CategoricalInputs ==
  { Parsed("array", <<r>>) : r \in WideRows(MaxColumns) }
  \cup { Parsed("array", a) : a \in CategoryArrays(MaxRows) \ { <<>> } }

KInit ==
  /\ IdleServer
  /\ QuietQualify
  /\ data \in CategoricalInputs
  /\ report = NoReport
  /\ args = NoArgs
  /\ QuietHost

SpecCategorical == KInit /\ [][ANext]_vars

\* the columns with a categorical summary, in the order of the report
Analysed == [i \in 1..Len(report.categoricalAnalysis) |-> report.categoricalAnalysis[i].col]

FirstRowValue(i) == data.elems[1].cols[i].v

\* the positions of the first five columns of the first row whose value has
\* one of the types ts
FirstFiveOf(ts) ==
  { i \in 1..Len(data.elems[1].cols) :
      /\ FirstRowValue(i).t \in ts
      /\ Cardinality({ j \in 1..(i - 1) : FirstRowValue(j).t \in ts }) < 5 }

\* the analysed columns are the columns at positions ps, in column order
AnalysedAre(ps) ==
  /\ Len(Analysed) = Cardinality(ps)
  /\ \A i \in ps :
       Analysed[Cardinality({ j \in ps : j <= i })] = data.elems[1].cols[i].k

CountedText(c, i) ==
  LET val == Get(data.elems[i], c)
  IN  IF val.t \in {"null", "undefined"} THEN <<"<none>">> ELSE ToText(val)

Occurrences(c, text) == { i \in 1..Len(data.elems) : CountedText(c, i) = text }

FirstOccurrence(c, text) ==
  CHOOSE i \in Occurrences(c, text) : \A j \in Occurrences(c, text) : i <= j

DistinctTexts(c) ==
  { CountedText(c, i) : i \in 1..Len(data.elems) } \ { <<"<none>">> }

\* C14: for every analysed categorical column the top-values list holds at
\* most five distinct non-null values, each with its number of occurrences, in
\* descending order of count; values with equal counts stand in the order of
\* their first occurrence in the rows, whatever their text (digit strings such
\* as "10" and "2" included); each percentage is count / number of rows, nulls
\* included, to two decimals (c = x,x,y gives x 2 66.67% then y 1 33.33%).
C14_TopValuesByCountThenFirstOccurrence ==
  Summarized =>
    \A k \in 1..Len(report.categoricalAnalysis) :
      LET c == report.categoricalAnalysis[k].col
          top == report.categoricalAnalysis[k].topValues
          n == Cardinality(DistinctTexts(c))
      IN  /\ Len(top) = IF n < 5 THEN n ELSE 5
          /\ \A i \in 1..Len(top) :
               /\ top[i].value \in DistinctTexts(c)
               /\ top[i].count = Cardinality(Occurrences(c, top[i].value))
               /\ top[i].percentage =
                    (2 * 10000 * top[i].count + Len(data.elems)) \div (2 * Len(data.elems))
          /\ \A i, j \in 1..Len(top) :
               i < j =>
                 \/ top[i].count > top[j].count
                 \/ /\ top[i].count = top[j].count
                    /\ FirstOccurrence(c, top[i].value) < FirstOccurrence(c, top[j].value)

----------------------------------------------------------------------------
(* The focused section of analyze_results *)

MaxFocusRows == 3  \* elements of the array analysed with a focus

FocusElements ==
  { Row(<< Cell("a", Num(1)) >>), Row(<< Cell("a", Num(2)) >>),
    Row(<< Cell("a", Num(4)) >>), Row(<< Cell("a", NullValue) >>),
    Row(<< Cell("a", Str(<<"5">>)) >>), Row(<< Cell("c", Str(<<"x">>)) >>),
    NullElement }

RECURSIVE FocusArrays(_)
FocusArrays(n) ==
  IF n = 0 THEN { <<>> }
  ELSE FocusArrays(n - 1)
       \cup { Append(a, e) : a \in { b \in FocusArrays(n - 1) : Len(b) = n - 1 },
                             e \in FocusElements }

\* the focus argument: absent, empty, the three tags in two letter cases each,
\* and another word
FocusArgs ==
  { Undefined, "", "trends", "TRENDS", "outliers", "Outliers",
    "distribution", "Distribution", "summary" }

FInit ==
  /\ IdleServer
  /\ QuietQualify
  /\ data \in { Parsed("array", a) : a \in FocusArrays(MaxFocusRows) }
  /\ report = NoReport
  /\ args \in { [NoArgs EXCEPT !.focus = f] : f \in FocusArgs }
  /\ QuietHost

SpecFocus == FInit /\ [][ANext]_vars

\* the non-null numbers of column c over the rows, with repetitions
NumberAt(c, i) == Get(data.elems[i], c)
Counted(c) == { i \in 1..Len(data.elems) : NumberAt(c, i).t = "number" }

Least(c) == CHOOSE x \in { NumberAt(c, i) : i \in Counted(c) } :
              \A i \in Counted(c) : ~NumLess(NumberAt(c, i), x)
Greatest(c) == CHOOSE x \in { NumberAt(c, i) : i \in Counted(c) } :
                 \A i \in Counted(c) : ~NumLess(x, NumberAt(c, i))

\* the bin (1 to 5) of value v among five bins of equal width over [lo, hi]:
\* bin b holds lo + (b-1)w <= v < lo + bw, and hi itself lies in the last bin
BinOf(v, lo, hi) ==
  IF v = hi THEN 5
  ELSE CHOOSE b \in 1..5 :
         /\ ~NumLess(NumMul(Num(5), NumSub(v, lo)), NumMul(Num(b - 1), NumSub(hi, lo)))
         /\ NumLess(NumMul(Num(5), NumSub(v, lo)), NumMul(Num(b), NumSub(hi, lo)))

DistributionAsked == args.focus \in {"distribution", "Distribution"}

\* C15: with focus distribution, for every numeric column the report has a
\* histogram of five equal-width bins over [min, max] in which every non-null
\* value of the column is counted in exactly one bin, the maximum in the last
\* one; the five counts sum to the number of non-null values, also when all
\* values of the column are equal (max = min).
C15_HistogramCountsEveryValue ==
  (Summarized /\ DistributionAsked) =>
    \A k \in 1..Len(data.elems[1].cols) :
      LET c == data.elems[1].cols[k].k
          lines == report.focusedInsights.lines
      IN  FirstRowValue(k).t = "number" =>
            \E l \in 1..Len(lines) :
              /\ lines[l].col = c
              /\ Len(lines[l].bins) = 5
              /\ \A b \in 1..5 :
                   lines[l].bins[b] =
                     Cardinality({ i \in Counted(c) :
                                     BinOf(NumberAt(c, i), Least(c), Greatest(c)) = b })

FocusRecognized ==
  args.focus \in { "trends", "TRENDS", "outliers", "Outliers",
                   "distribution", "Distribution" }

HasNumericColumn == \E k \in 1..Len(data.elems[1].cols) : FirstRowValue(k).t = "number"

\* C16: the report has a focused section if and only if the focus argument is
\* trends, outliers or distribution in any letter case and the data has a
\* numeric column; an absent, empty or other focus gives no focused section,
\* and in every case the call ends as it does without focus and the rest of the
\* report is the report without focus.
C16_FocusedSectionIffRecognized ==
  (pc = "done" /\ req.name = "analyze_results") =>
    LET plain == analyzeResults(data, Undefined)
    IN  /\ result = plain.result
        /\ (report = NoReport) <=> (plain.report = NoReport)
        /\ Reported =>
             /\ report.focusedInsights # NoFocus <=> (FocusRecognized /\ HasNumericColumn)
             /\ [report EXCEPT !.focusedInsights = NoFocus] = plain.report

\* a focus written in capitals gave a trend section, one line per column
C16_Witness ==
  /\ Summarized
  /\ args.focus = "TRENDS"
  /\ report.focusedInsights.kind = "trends"
  /\ Len(report.focusedInsights.lines) = 1
  /\ Len(data.elems) = 3

----------------------------------------------------------------------------
(* Properties of generate_visualization *)

Charted == Reported /\ req.name = "generate_visualization"

FirstRowKey(i) == data.elems[1].cols[i].k

CategoricalPositions ==
  { i \in 1..Len(data.elems[1].cols) : FirstRowValue(i).t \in {"string", "boolean"} }

NumericPositions ==
  { i \in 1..Len(data.elems[1].cols) : FirstRowValue(i).t = "number" }

MinOf(S) == CHOOSE i \in S : \A j \in S : i <= j

\* C17: the X column is the first string-or-boolean column if one exists, else
\* the first numeric column, else the first column by position; the Y column is
\* the first numeric column when one exists, replaced by the second numeric
\* column when the first numeric column is the X column and a second one
\* exists; with no numeric column Y is the second column by position, or the
\* only column when there is exactly one.
C17_AxisColumns ==
  (Charted /\ Len(data.elems[1].cols) > 0) =>
    LET x == IF CategoricalPositions # {} THEN MinOf(CategoricalPositions)
             ELSE IF NumericPositions # {} THEN MinOf(NumericPositions)
             ELSE 1
        n1 == MinOf(NumericPositions)
        y == IF NumericPositions # {}
             THEN IF n1 = x /\ NumericPositions \ {n1} # {}
                  THEN MinOf(NumericPositions \ {n1})
                  ELSE n1
             ELSE IF Len(data.elems[1].cols) > 1 THEN 2 ELSE 1
    IN  /\ report.xColumn = FirstRowKey(x)
        /\ report.yColumn = FirstRowKey(y)

\* a numeric column after a null one is X, the next numeric column is Y, and a
\* later row holds other types
C17_Witness ==
  /\ Charted
  /\ Len(data.elems) > 1
  /\ Len(data.elems[1].cols) = 3
  /\ FirstRowValue(1).t = "null"
  /\ report.xColumn = "b"
  /\ report.yColumn = "c"
  /\ report.columnTypes["c"] = "numeric"

----------------------------------------------------------------------------
(* generate_visualization on its own *)

MaxSliceRows == 3  \* elements of the short arrays that are charted
MaxSeries == 25    \* elements of the long arrays that are charted

\* rows of a category k and an amount v, rows of a category alone, and null
SliceElements ==
  { Row(<< Cell("k", Str(<<k>>)), Cell("v", v) >>) :
      k \in {"a", "b"}, v \in { Num(1), Num(2), Num(5), Str(<<"x">>) } }
  \cup { Row(<< Cell("k", Str(<<"a">>)) >>), Row(<< Cell("k", Str(<<"b">>)) >>),
         NullElement }

RECURSIVE SliceArrays(_)
SliceArrays(n) ==
  IF n = 0 THEN { <<>> }
  ELSE SliceArrays(n - 1)
       \cup { Append(a, e) : a \in { b \in SliceArrays(n - 1) : Len(b) = n - 1 },
                             e \in SliceElements }

\* n rows numbered in both columns: k is the row number as text, v as number
SeriesOf(n) ==
  [i \in 1..n |-> Row(<< Cell("k", Str(NatToDigits(i))), Cell("v", Num(i)) >>)]

\* the long arrays, and the same with null in place of the last row
SeriesArrays ==
  { SeriesOf(n) : n \in 1..MaxSeries }
  \cup { [SeriesOf(n) EXCEPT ![n] = NullElement] : n \in 2..MaxSeries }

\* the type argument: absent, empty, the four kinds, capitals, another word
TypeArgs == { Undefined, "", "bar", "line", "Line", "pie", "PIE", "scatter", "area" }

VInit ==
  /\ IdleServer
  /\ QuietQualify
  /\ data \in { Parsed("array", a) : a \in SliceArrays(MaxSliceRows) \cup SeriesArrays }
  /\ report = NoReport
  /\ args \in { [NoArgs EXCEPT !.type = t] : t \in TypeArgs }
  /\ QuietHost

VNext == GenerateVisualization

SpecVisualize == VInit /\ [][VNext]_vars

PieAsked == args.type \in {"pie", "PIE"}

\* the category of row i as text, its amount as a number
CategoryAt(i) == ToText(Get(data.elems[i], report.xColumn))
AmountAt(i) == ToNumber(Get(data.elems[i], report.yColumn))

RowsOfCategory(text) == { i \in 1..Len(data.elems) : CategoryAt(i) = text }

\* the total of the amounts of the rows in S
RECURSIVE AmountOver(_)
AmountOver(S) ==
  IF S = {} THEN Num(0)
  ELSE LET i == CHOOSE j \in S : TRUE
       IN  NumAdd(AmountOver(S \ {i}), AmountAt(i))

\* C18: for kind pie the chart has exactly one slice per distinct value of the
\* X column over all input rows, beyond 20 rows too, and the value of a slice is
\* the sum of the Y column over the rows of its category when a numeric column
\* exists, or the number of those rows when none exists (rows (a,1),(a,2),(b,5)
\* give a:3, b:5).
C18_PieSlicesSumByCategory ==
  (Charted /\ PieAsked) =>
    /\ report.chartType = "pie"
    /\ Len(report.labels) = Cardinality({ CategoryAt(i) : i \in 1..Len(data.elems) })
    /\ \A i \in 1..Len(data.elems) :
         \E l \in 1..Len(report.labels) :
           /\ report.labels[l] = Str(CategoryAt(i))
           /\ report.values[l] =
                IF NumericPositions # {} THEN AmountOver(RowsOfCategory(CategoryAt(i)))
                ELSE Num(Cardinality(RowsOfCategory(CategoryAt(i))))

\* the kinds that are neither pie nor scatter
SeriesAsked == args.type \notin {"pie", "PIE", "scatter"}

Shown == IF Len(data.elems) < 20 THEN Len(data.elems) ELSE 20

\* C19: for every requested kind other than pie and scatter (bar, line, absent
\* or unrecognized, which is drawn as bar) the series of an input of n rows
\* holds exactly the first min(n, 20) rows, one label and one value per row, in
\* the order of the rows; with 25 rows it holds rows 1 to 20.
C19_SeriesIsFirstTwentyRows ==
  (Charted /\ SeriesAsked) =>
    /\ report.chartType = IF args.type \in {"line", "Line"} THEN "line" ELSE "bar"
    /\ Len(report.labels) = Shown
    /\ Len(report.values) = Shown
    /\ \A i \in 1..Shown :
         /\ report.labels[i] = Get(data.elems[i], report.xColumn)
         /\ report.values[i] = Get(data.elems[i], report.yColumn)

\* 25 rows asked as an unrecognized kind: a bar chart of rows 1 to 20
C19_Witness ==
  /\ Charted
  /\ args.type = "area"
  /\ Len(data.elems) = 25
  /\ report.chartType = "bar"
  /\ Len(report.labels) = 20
  /\ report.values[20] = Num(20)

----------------------------------------------------------------------------
(* Properties of the tool dispatch *)

UnknownToolCalled == pc # "idle" /\ req.name \in OtherNames

\* C20: a tool call whose name is none of query, generate_sql, analyze_results,
\* generate_visualization, get_schema_insights ends at once in a thrown Error, never
\* in a returned tool result, and no request has gone to the warehouse
C20_UnknownToolThrows ==
  UnknownToolCalled =>
    /\ pc = "done"
    /\ result.kind = "thrown"
    /\ result.payload = << TRUE >>
    /\ result.message = UnknownToolMessage
    /\ calls = <<>>

C20_Witness ==
  /\ pc = "done"
  /\ req.name = "Query"
  /\ req.sqlGiven
  /\ result.kind = "thrown"
  /\ calls = <<>>

----------------------------------------------------------------------------
(* Start-up: parseArgs, validateConfig, the module's try / catch, runServer *)

MaxArgs == 4      \* words on the command line
MaxHandled == 2   \* requests handled once the transport is connected

\* the words a command line is made of
ArgWords == { "--project-id", "--key-file", "--location", "--x", "proj", "P_1", "" }

\* the digit an id such as d1 or t3 ends in
DigitOfId(w) ==
  CASE w \in { "d1", "t1" } -> "1"
    [] w = "d2" -> "2"
    [] w \in { "d3", "t3" } -> "3"
    [] OTHER -> "4"

\* the characters of a word
CharsOf(w) ==
  CASE w = "--project-id" -> <<"-", "-", "p", "r", "o", "j", "e", "c", "t", "-", "i", "d">>
    [] w = "--key-file" -> <<"-", "-", "k", "e", "y", "-", "f", "i", "l", "e">>
    [] w = "--location" -> <<"-", "-", "l", "o", "c", "a", "t", "i", "o", "n">>
    [] w = "--x" -> <<"-", "-", "x">>
    [] w = "proj" -> <<"p", "r", "o", "j">>
    [] w = "P_1" -> <<"P", "_", "1">>
    [] w = "schema" -> <<"s", "c", "h", "e", "m", "a">>
    [] w = "my table" -> <<"m", "y", " ", "t", "a", "b", "l", "e">>
    [] w = "my%20table" -> <<"m", "y", "%", "2", "0", "t", "a", "b", "l", "e">>
    [] w \in { "d1", "d2", "d3", "d4" } -> <<"d", DigitOfId(w)>>
    [] w \in { "t1", "t3", "t4" } -> <<"t", DigitOfId(w)>>
    [] OTHER -> <<>>

\* arg.startsWith('--')
startsWithDashes(w) ==
  LET c == CharsOf(w) IN Len(c) >= 2 /\ c[1] = "-" /\ c[2] = "-"

\* arg.slice(2)
keyOf(w) == LET c == CharsOf(w) IN SubSeq(c, 3, Len(c))

LowerLetters ==
  { "a", "b", "c", "d", "e", "f", "g", "h", "i", "j", "k", "l", "m", "n", "o", "p", "q",
    "r", "s", "t", "u", "v", "w", "x", "y", "z" }
DecimalDigits == { "0", "1", "2", "3", "4", "5", "6", "7", "8", "9" }

\* /^[a-z0-9-]+$/.test(config.projectId)
projectIdTest(w) ==
  LET c == CharsOf(w)
  IN  /\ Len(c) >= 1
      /\ \A i \in 1..Len(c) : c[i] \in LowerLetters \cup DecimalDigits \cup { "-" }

\* let config: declared and not yet assigned
NoConfig == [projectId |-> "", location |-> "", keyFilename |-> Undefined]

ParseFault(message) == [threw |-> TRUE, message |-> message, config |-> NoConfig]

\* the for loop of parseArgs from word number i on, then the project id check
RECURSIVE parseFrom(_, _, _)
parseFrom(argv, i, cfg) ==
  IF i > Len(argv)
  THEN IF cfg.projectId = "" THEN ParseFault("Missing required argument: --project-id")
       ELSE [threw |-> FALSE, message |-> "", config |-> cfg]
  ELSE IF ~startsWithDashes(argv[i]) THEN ParseFault("Invalid argument")
  ELSE IF i + 1 > Len(argv) \/ startsWithDashes(argv[i + 1])
  THEN ParseFault("Missing value for argument")
  ELSE LET key == keyOf(argv[i])
           value == argv[i + 1]
       IN  IF key = <<"p", "r", "o", "j", "e", "c", "t", "-", "i", "d">>
           THEN parseFrom(argv, i + 2, [cfg EXCEPT !.projectId = value])
           ELSE IF key = <<"l", "o", "c", "a", "t", "i", "o", "n">>
           THEN parseFrom(argv, i + 2, [cfg EXCEPT !.location = value])
           ELSE IF key = <<"k", "e", "y", "-", "f", "i", "l", "e">>
           THEN parseFrom(argv, i + 2, [cfg EXCEPT !.keyFilename = value])
           ELSE ParseFault("Unknown argument")

\* parseArgs(): process.argv.slice(2) read into a ServerConfig, or a throw
parseArgs(argv) ==
  parseFrom(argv, 1, [projectId |-> "", location |-> "US", keyFilename |-> Undefined])

\* how fs.access(resolvedKeyPath, R_OK) settles: it resolves, or it rejects with an
\* Error carrying a code, or with a value that is no Error
AccessOutcomes == { "ok", "EACCES", "ENOENT", "EIO", "not an Error" }

\* the message of the Error the catch of fs.access throws
accessFault(outcome) ==
  CASE outcome = "EACCES" -> "Permission denied accessing key file"
    [] outcome = "ENOENT" -> "Key file not found"
    [] outcome = "EIO" -> "Unable to access key file"
    [] OTHER -> "Unexpected error accessing key file"

\* how fs.readFile settles and what JSON.parse makes of the content
KeyFile(threw, json, isNull, type, projectId) ==
  [threw |-> threw, json |-> json, isNull |-> isNull, type |-> type, project_id |-> projectId]

KeyFiles ==
  { KeyFile(TRUE, FALSE, FALSE, Undefined, Undefined),     \* readFile rejects (EISDIR)
    KeyFile(FALSE, FALSE, FALSE, Undefined, Undefined),    \* not JSON
    KeyFile(FALSE, TRUE, TRUE, Undefined, Undefined) }     \* the text null
  \cup { KeyFile(FALSE, TRUE, FALSE, t, p) :
           t \in { Undefined, "user", "service_account" }, p \in { Undefined, "", "proj" } }

NoKeyFile == [none |-> TRUE]

\* the try around readFile and JSON.parse: "" when the key data passes, else
\* the message of what is thrown on
keyFileFault(f) ==
  IF f.threw THEN "EISDIR"
  ELSE IF ~f.json THEN "Service account key file is not valid JSON"
  ELSE IF f.isNull THEN "TypeError"
  ELSE IF Falsy(f.type) \/ f.type # "service_account" \/ Falsy(f.project_id)
  THEN "Invalid service account key file format"
  ELSE ""

\* a catch that reports the error and lets the module go on
initCatch_logOnly(p, fault) == [p EXCEPT !.at = "initialized", !.fault = fault]

\* catch (error) of the module's try: console.error, process.exit(1)
initCatch(p, fault) == [p EXCEPT !.at = "exited", !.fault = fault, !.exit = 1]

\* the end of validateConfig and of the try: the project id check, then the
\* client and the base URL are made
validateProjectId(p, cfg) ==
  IF ~projectIdTest(cfg.projectId) THEN initCatch(p, "Invalid project ID format")
  ELSE [p EXCEPT !.at = "initialized"]

Starting(argv) ==
  [at |-> "start", argv |-> argv, access |-> "", keyFile |-> NoKeyFile,
   fault |-> "", exit |-> -1, handled |-> 0]

RECURSIVE ArgLists(_)
ArgLists(n) ==
  IF n = 0 THEN { <<>> }
  ELSE ArgLists(n - 1) \cup { Append(a, w) : a \in ArgLists(n - 1), w \in ArgWords }

SInit ==
  /\ proc \in { Starting(a) : a \in ArgLists(MaxArgs) }
  /\ config = NoConfig
  /\ IdleHandler
  /\ QuietQualify
  /\ QuietAnalyze
  /\ other = NoOther

startUnchanged ==
  <<pc, req, frame, calls, replies, result, qualifyVars, analyzeVars, other>>

\* config = parseArgs()
ParseArgs ==
  /\ proc.at = "start"
  /\ LET parsed == parseArgs(proc.argv)
     IN  IF parsed.threw
         THEN proc' = initCatch(proc, parsed.message) /\ UNCHANGED config
         ELSE proc' = [proc EXCEPT !.at = "validate"] /\ config' = parsed.config
  /\ UNCHANGED startUnchanged

\* validateConfig(config) up to its first await, or to its end without a key file
ValidateConfig ==
  /\ proc.at = "validate"
  /\ proc' = IF ~Falsy(config.keyFilename) THEN [proc EXCEPT !.at = "access"]
             ELSE validateProjectId(proc, config)
  /\ UNCHANGED <<config, startUnchanged>>

\* fs.access settles
AccessSettles ==
  /\ proc.at = "access"
  /\ \E outcome \in AccessOutcomes :
       LET p == [proc EXCEPT !.access = outcome]
       IN  proc' = IF outcome = "ok" THEN [p EXCEPT !.at = "read"]
                   ELSE initCatch(p, accessFault(outcome))
  /\ UNCHANGED <<config, startUnchanged>>

\* fs.readFile settles and validateConfig runs to its end
ReadFileSettles ==
  /\ proc.at = "read"
  /\ \E f \in KeyFiles :
       LET p == [proc EXCEPT !.keyFile = f]
       IN  proc' = IF keyFileFault(f) # "" THEN initCatch(p, keyFileFault(f))
                   ELSE validateProjectId(p, config)
  /\ UNCHANGED <<config, startUnchanged>>

\* runServer(): server.connect(transport) settles; a rejection ends the process
RunServer ==
  /\ proc.at = "initialized"
  /\ \E connected \in BOOLEAN :
       proc' = IF connected THEN [proc EXCEPT !.at = "connected"]
               ELSE [proc EXCEPT !.at = "exited", !.exit = 1]
  /\ UNCHANGED <<config, startUnchanged>>

\* a request arrives over the connected transport and its handler runs
HandleRequest ==
  /\ proc.at = "connected"
  /\ proc.handled < MaxHandled
  /\ proc' = [proc EXCEPT !.handled = proc.handled + 1]
  /\ UNCHANGED <<config, startUnchanged>>

SNext ==
  \/ ParseArgs
  \/ ValidateConfig
  \/ AccessSettles
  \/ ReadFileSettles
  \/ RunServer
  \/ HandleRequest

SpecStartup == SInit /\ [][SNext]_vars

----------------------------------------------------------------------------
(* Properties of start-up *)

KnownFlags == { "--project-id", "--key-file", "--location" }
FlagWords == KnownFlags \cup { "--x" }

\* the command line is a list of known flags, each followed by a value
PairedArgs(argv) ==
  /\ Len(argv) % 2 = 0
  /\ \A i \in 1..Len(argv) :
       IF i % 2 = 1 THEN argv[i] \in KnownFlags ELSE argv[i] \notin FlagWords

\* the value given last for a flag, "" when the flag is not given
LastValue(argv, flag) ==
  LET given == { i \in 1..Len(argv) : i % 2 = 1 /\ argv[i] = flag }
  IN  IF given = {} THEN ""
      ELSE argv[(CHOOSE i \in given : \A j \in given : j <= i) + 1]

GoodArgs(argv) == PairedArgs(argv) /\ LastValue(argv, "--project-id") # ""

\* the words made of lower-case letters, digits and hyphens only
WellFormedProjectIds == { "proj" }

ServiceAccountKey(f) ==
  /\ ~f.threw
  /\ f.json
  /\ ~f.isNull
  /\ f.type = "service_account"
  /\ f.project_id \notin { Undefined, "" }

StartupFailed ==
  \/ proc.at # "start" /\ ~GoodArgs(proc.argv)
  \/ proc.access \notin { "", "ok" }
  \/ proc.keyFile # NoKeyFile /\ ~ServiceAccountKey(proc.keyFile)
  \/ /\ proc.at \notin { "start", "validate", "access", "read" }
     /\ GoodArgs(proc.argv)
     /\ LastValue(proc.argv, "--project-id") \notin WellFormedProjectIds

\* C21: when argument parsing or configuration validation fails (unknown or
\* valueless argument, missing project id, unreadable key file, key file that is not
\* JSON or not a service-account key, malformed project id) the process has exited
\* with a non-zero status, the transport was never connected and no request was
\* handled
C21_FailedStartupExits ==
  StartupFailed =>
    /\ proc.at = "exited"
    /\ proc.exit > 0
    /\ proc.handled = 0

C21_Witness ==
  /\ proc.at = "exited"
  /\ proc.exit = 1
  /\ proc.argv = << "--project-id", "proj", "--key-file", "proj" >>
  /\ proc.access = "ok"
  /\ proc.keyFile = KeyFile(FALSE, TRUE, FALSE, "user", "proj")

----------------------------------------------------------------------------
(* Two invocations in flight: the event loop runs one handler at a time and may
   pass from one to the other wherever the running one awaits the warehouse *)

MaxAwaits == 3    \* warehouse replies one invocation receives

\* what an invocation keeps while it is suspended: the request it was given, the
\* locals of its handler, the calls it issued and their replies, how it ended
Invocation(p, r, f, c, rp, res) ==
  [pc |-> p, req |-> r, frame |-> f, calls |-> c, replies |-> rp, result |-> res]

NotStarted == Invocation("idle", NoReq, NoFrame, <<>>, <<>>, NoResult)

\* locals kept in one place for every invocation: the list being filled is the
\* one the running handler has
resumedFrame_sharedList(own, running) == [own EXCEPT !.acc = running.acc]

\* the locals a resumed handler finds: its own (const and let inside the handler)
resumedFrame(own, running) == own

\* the running invocation is suspended where it stands and the other one resumes
Switch ==
  /\ other # NoOther
  /\ pc' = other.pc
  /\ req' = other.req
  /\ frame' = resumedFrame(other.frame, frame)
  /\ calls' = other.calls
  /\ replies' = other.replies
  /\ result' = other.result
  /\ other' = Invocation(pc, req, frame, calls, replies, result)
  /\ UNCHANGED <<config, qualifyVars, analyzeVars, proc>>

\* a handler run on its own from its entry to its first await
aloneStart(r, cfg) ==
  IF r.name = "query"
  THEN LET o == queryStart(r.sqlGiven, r.sql, r.maximumBytesBilled, cfg)
       IN  Step(o.done, o.result,
                IF o.done THEN NoFrame ELSE [NoFrame EXCEPT !.at = "query"], o.calls)
  ELSE IF r.name \in { "resources/list", "generate_sql", "get_schema_insights" }
  THEN Step(FALSE, NoResult, [NoFrame EXCEPT !.at = "getDatasets"], << GetDatasetsCall >>)
  ELSE IF r.name = "resources/read" THEN readResourceStart(r.uri)
  ELSE unknownTool(r.name)

\* a handler run on its own from the await it stands at to the next
aloneResume(r, st, reply) ==
  LET o == CASE st.frame.at = "query" -> Step(TRUE, queryResume(reply), NoFrame, <<>>)
             [] st.frame.at = "getDatasets" -> afterGetDatasets(r, reply)
             [] st.frame.at = "getTables" -> afterGetTables(r, st.frame, reply)
             [] st.frame.at = "getMetadata" -> afterGetMetadata(r, st.frame, reply)
             [] OTHER -> readResourceResume(reply)
  IN  Step(o.done, o.result, o.frame, st.calls \o o.calls)

\* a handler run on its own on the first k of the replies it received
RECURSIVE aloneRun(_, _, _, _)
aloneRun(r, cfg, rp, k) ==
  IF k = 0 THEN aloneStart(r, cfg)
  ELSE aloneResume(r, aloneRun(r, cfg, rp, k - 1), rp[k])

QualifiedText == << "FROM", " ", "ds", ".", "INFORMATION_SCHEMA", ".", "TABLES" >>

\* the requests the two invocations are given
BriefRequests ==
  { [NoReq EXCEPT !.name = "query", !.sqlGiven = TRUE, !.sql = t] :
      t \in { <<"x">>, QualifiedText } }
  \cup { [NoReq EXCEPT !.name = n] : n \in { "resources/list", "generate_sql", "Query" } }
  \cup { [NoReq EXCEPT !.name = "get_schema_insights", !.dataset = "d1"],
         [NoReq EXCEPT !.name = "resources/read", !.uri = << "d1", "t1", "schema" >>] }

\* the replies they are run on
Brief ==
  /\ Len(replies) <= MaxAwaits
  /\ \A i \in 1..Len(replies) :
       /\ replies[i].ok \/ replies[i].raised.isErrorObj
       /\ Len(replies[i].rows) <= 2

TInit ==
  /\ config \in Configs
  /\ IdleHandler
  /\ QuietQualify
  /\ QuietAnalyze
  /\ proc = Serving
  /\ other = NotStarted

\* a request arrives and its handler runs to its first await
StartCall ==
  /\ pc = "idle"
  /\ \E r \in BriefRequests :
       /\ req' = r
       /\ TakeStep(aloneStart(r, config))
  /\ UNCHANGED <<config, replies, qualifyVars, analyzeVars, hostVars>>

\* a call of the running invocation settles and its handler runs on
Resume ==
  /\ pc = "await"
  /\ Next
  /\ Brief'

TNext ==
  \/ StartCall
  \/ Resume
  \/ Switch

SpecCalls == TInit /\ [][TNext]_vars

----------------------------------------------------------------------------
(* Properties of invocations in flight together *)

\* an invocation stands where running it alone on its own replies leaves it
AsAlone(inv) ==
  inv.pc # "idle" =>
    LET st == aloneRun(inv.req, config, inv.replies, Len(inv.replies))
    IN  /\ inv.pc = (IF st.done THEN "done" ELSE "await")
        /\ inv.result = st.result
        /\ inv.frame = st.frame
        /\ inv.calls = st.calls

BothCalled == pc # "idle" /\ other # NoOther /\ other.pc # "idle"

\* C22: invocations are independent: whatever the interleaving of their steps at
\* the awaits, each one's result (and its position, locals and warehouse calls on
\* the way) is what its own arguments, the start-up configuration and the replies
\* to its own calls give when it is run alone
C22_InterleavedAsAlone ==
  other # NoOther =>
    /\ AsAlone(Invocation(pc, req, frame, calls, replies, result))
    /\ AsAlone(other)

C22_Witness ==
  /\ BothCalled
  /\ pc = "done" /\ other.pc = "done"
  /\ req.name = "get_schema_insights" /\ other.req.name = "resources/list"
  /\ Len(calls) = 3 /\ Len(other.calls) = 3
  /\ result.kind = "returned" /\ ~result.isError /\ Len(result.payload) = 1
  /\ other.replies[1] # replies[1]

----------------------------------------------------------------------------
(* Resource URIs: new URL(`${dataset.id}/${table.id}/schema`, resourceBaseUrl).href
   when listing, new URL(request.params.uri).pathname.split("/") when reading *)

\* the words that are spelt out character by character
UriWords ==
  { "", "schema", "my table", "my%20table", "d1", "d2", "d3", "d4", "t1", "t3", "t4" }

\* the word with these characters
WordOf(c) == CHOOSE w \in UriWords : CharsOf(w) = c

\* the URL parser writes a character of a path segment as it is, or percent-encoded
\* when it belongs to the path percent-encode set (the space here)
percentEncode(c) == IF c = " " THEN <<"%", "2", "0">> ELSE <<c>>

RECURSIVE encodeSegment(_)
encodeSegment(chars) ==
  IF chars = <<>> THEN <<>>
  ELSE percentEncode(chars[1]) \o encodeSegment(SubSeq(chars, 2, Len(chars)))

\* the pathname of new URL(`${dataset.id}/${table.id}/${SCHEMA_PATH}`, resourceBaseUrl):
\* the base has a host and an empty path, so the relative path is put below "/"
pathnameOf(datasetId, tableId) ==
  <<"/">> \o encodeSegment(CharsOf(datasetId)) \o <<"/">>
  \o encodeSegment(CharsOf(tableId)) \o <<"/">> \o encodeSegment(CharsOf(SCHEMA_PATH))

\* pathname.split("/"): the pieces between the slashes, none of them decoded
RECURSIVE split(_, _)
split(chars, piece) ==
  IF chars = <<>> THEN << WordOf(piece) >>
  ELSE IF chars[1] = "/"
  THEN << WordOf(piece) >> \o split(SubSeq(chars, 2, Len(chars)), <<>>)
  ELSE split(SubSeq(chars, 2, Len(chars)), Append(piece, chars[1]))

pathComponents(pathname) == split(pathname, <<>>)

\* the uri of the resource listed for an entry, as the reading handler takes it apart
listedUri(entry) == pathComponents(pathnameOf(entry.dataset, entry.table))

\* a client reads a resource that the finished listing returned: the listing is
\* kept aside and the reading handler runs to its await
ReadListed ==
  /\ pc = "done"
  /\ req.name = "resources/list"
  /\ other = NoOther
  /\ result.kind = "returned"
  /\ \E k \in 1..Len(result.payload) :
       LET uri == listedUri(result.payload[k])
           o == readResourceStart(uri)
       IN  /\ req' = [NoReq EXCEPT !.name = "resources/read", !.uri = uri]
           /\ pc' = IF o.done THEN "done" ELSE "await"
           /\ result' = o.result
           /\ frame' = o.frame
           /\ calls' = o.calls
  /\ replies' = <<>>
  /\ other' = Invocation(pc, req, frame, calls, replies, result)
  /\ UNCHANGED <<config, qualifyVars, analyzeVars, proc>>

RInit ==
  /\ config \in Configs
  /\ IdleHandler
  /\ QuietQualify
  /\ QuietAnalyze
  /\ QuietHost

RNext ==
  \/ ListResources
  \/ GetDatasetsReply
  \/ GetTablesReply
  \/ GetMetadataReply
  \/ ReadListed
  \/ ReadResource
  \/ ReadMetadataReply

SpecResources == RInit /\ [][RNext]_vars

----------------------------------------------------------------------------
(* Properties of resource listing and reading *)

\* the tables and views the warehouse reported to a listing, dataset after dataset:
\* the reply to getTables of dataset number di is reply number k, and one reply of
\* getMetadata follows for each of its tables
RECURSIVE ReportedTables(_, _, _, _)
ReportedTables(datasets, di, rp, k) ==
  IF di > Len(datasets) THEN <<>>
  ELSE [i \in 1..Len(rp[k].rows) |-> [dataset |-> datasets[di], table |-> rp[k].rows[i]]]
       \o ReportedTables(datasets, di + 1, rp, k + 1 + Len(rp[k].rows))

ListingReturned(inv) ==
  inv.pc = "done" /\ inv.req.name = "resources/list" /\ inv.result.kind = "returned"

\* one resource per reported table or view, in the order of the enumeration
ListsEveryTable(inv) ==
  ListingReturned(inv) =>
    LET expected == ReportedTables(inv.replies[1].rows, 1, inv.replies, 2)
        listed == inv.result.payload
    IN  /\ Len(listed) = Len(expected)
        /\ \A i \in 1..Len(listed) :
             /\ listed[i].dataset = expected[i].dataset
             /\ listed[i].table = expected[i].table

ReadingListed == req.name = "resources/read" /\ other # NoOther

\* reading a listed URI asks for the metadata of the table the URI was built from
\* and returns what the warehouse answers
ReadsTheListedTable ==
  ReadingListed =>
    /\ \E k \in 1..Len(other.result.payload) : listedUri(other.result.payload[k]) = req.uri
    /\ \A k \in 1..Len(other.result.payload) :
         listedUri(other.result.payload[k]) = req.uri =>
           calls = << GetMetadataCall(other.result.payload[k].dataset,
                                      other.result.payload[k].table) >>
    /\ (pc = "done" /\ replies[1].ok) =>
         (result.kind = "returned" /\ ~result.isError /\ result.payload = replies[1].rows)

\* a URI that does not end in schema is refused before any call
RefusesOtherPaths ==
  (req.name = "resources/read" /\ pc # "idle" /\ req.uri[Len(req.uri)] # SCHEMA_PATH) =>
    (pc = "done" /\ result.kind = "thrown" /\ calls = <<>>)

\* C23: listing returns one resource per table or view of every dataset, in
\* enumeration order; reading a URI the listing returned fetches the metadata of
\* the dataset and table the URI was built from and returns its field list; reading
\* a URI whose last path component is not schema fails without a warehouse call
C23_ListThenReadRoundTrip ==
  /\ ListsEveryTable(Invocation(pc, req, frame, calls, replies, result))
  /\ ReadsTheListedTable
  /\ RefusesOtherPaths

----------------------------------------------------------------------------
(* Properties of the keyword guard on identifiers *)

KeywordAt(s, i) == Upper(s[i]) \in ForbiddenWords

\* the keyword at i is part of a longer identifier: a letter, a digit or an
\* underscore stands directly before or after it
InsideIdentifier(s, i) ==
  \/ i > 1 /\ s[i-1] \notin SpaceToks \cup PunctToks
  \/ i < Len(s) /\ s[i+1] \notin SpaceToks \cup PunctToks

\* the same with an ASCII letter, a digit or an underscore
InsideAsciiIdentifier(s, i) ==
  \/ i > 1 /\ s[i-1] \notin SpaceToks \cup PunctToks \cup NonAsciiToks
  \/ i < Len(s) /\ s[i+1] \notin SpaceToks \cup PunctToks \cup NonAsciiToks

KeywordOnlyInside(s) ==
  /\ \E i \in 1..Len(s) : KeywordAt(s, i)
  /\ \A i \in 1..Len(s) : KeywordAt(s, i) => InsideIdentifier(s, i)

KeywordOnlyInsideAscii(s) ==
  /\ \E i \in 1..Len(s) : KeywordAt(s, i)
  /\ \A i \in 1..Len(s) : KeywordAt(s, i) => InsideAsciiIdentifier(s, i)

GuardRejected == result.kind = "thrown" /\ result.message = ReadOnlyMessage

QuerySent == Len(calls) = 1 /\ calls[1].op = "query"

\* C24 as stated: a query whose SQL holds forbidden keywords only as parts of
\* longer identifiers is not rejected by the guard and goes on to the warehouse call
C24_IdentifiersReachWarehouse ==
  (QueryCalled /\ req.sqlGiven /\ KeywordOnlyInside(req.sql))
    => (~GuardRejected /\ QuerySent)

\* C24 amended: when every keyword has an ASCII letter, a digit or an underscore
\* directly beside it the guard does not reject the call; the call goes on to the
\* rewrite and then to the warehouse, unless the rewrite refuses a
\* FROM INFORMATION_SCHEMA.TABLES without dataset
C24_AsciiIdentifiersPassGuard ==
  (QueryCalled /\ req.sqlGiven /\ KeywordOnlyInsideAscii(req.sql))
    => /\ ~GuardRejected
       /\ IF UnqualifiedOccurrences(req.sql) = {} THEN QuerySent
          ELSE ReturnedError /\ result.message = DatasetMessage /\ calls = <<>>

C24_Witness ==
  /\ QueryCalled
  /\ req.sql = << "CREATE", "d_at", "FROM", " ", "ds", ".", "t1" >>
  /\ pc = "done"
  /\ QuerySent
  /\ result.kind = "returned" /\ ~result.isError

----------------------------------------------------------------------------
(* Properties of the axis columns *)

\* C25: whenever the first row has at least two columns, the X column and the Y
\* column of generate_visualization are different columns, whatever the types of
\* the first row's values (string, boolean, number, null, nested object) and the
\* order of the columns
C25_AxesDiffer ==
  (Charted /\ Len(data.elems[1].cols) >= 2) => report.xColumn # report.yColumn

====
